---- MODULE Spec2Model ----
(***************************************************************************)
(* A model of the row-access, indexing and join engine of                  *)
(* python-dwca-reader: dwca/files.py (CSVDataFile), dwca/rows.py (Row,     *)
(* CoreRow, ExtensionRow, csv_line_to_fields), dwca/star_record.py         *)
(* (StarRecordIterator) and the iteration of dwca/read.py (DwCAReader).    *)
(*                                                                         *)
(* A text is a sequence of one-character strings.  Python positions are    *)
(* 0-based, TLA+ sequences 1-based: Python s[j] is s[j + 1] here.          *)
(***************************************************************************)
EXTENDS Integers, Sequences, FiniteSets, TLC

\* ------------------------------------------------------------------------
\* Bounds of the model
\* ------------------------------------------------------------------------
MaxRows == 2
MaxHeader == 2

\* ------------------------------------------------------------------------
\* Python values
\* ------------------------------------------------------------------------
NL == "\n"
TAB == "\t"

\* Optional values: None, or a value wrapped by Some.
None == <<>>
Some(x) == <<x>>
Val(o) == o[1]

Range(s) == {s[i] : i \in 1..Len(s)}

\* seq[j] of Python is defined for -len <= j < len; a negative j counts
\* from the end.
PyInRange(s, j) == -Len(s) <= j /\ j < Len(s)
PyGet(s, j) == IF j >= 0 THEN s[j + 1] ELSE s[Len(s) + j + 1]

\* The outcome of a call: status is "ok" or the name of the exception
\* raised, value is what the call returned (<<>> when it raised).
Ok(v) == [status |-> "ok", value |-> v]
Raise(e) == [status |-> e, value |-> <<>>]

\* ------------------------------------------------------------------------
\* dwca/rows.py
\* ------------------------------------------------------------------------
RECURSIVE rstrip(_, _)
rstrip(s, chars) ==
    IF s # <<>> /\ s[Len(s)] \in chars
    THEN rstrip(SubSeq(s, 1, Len(s) - 1), chars)
    ELSE s

RECURSIVE lstrip(_, _)
lstrip(s, chars) ==
    IF s # <<>> /\ s[1] \in chars
    THEN lstrip(SubSeq(s, 2, Len(s)), chars)
    ELSE s

strip(s, chars) == lstrip(rstrip(s, chars), chars)

\* csv.reader with quoting=QUOTE_NONE on one line: split on every delimiter;
\* acc holds the fields already complete, cur the field being read.
RECURSIVE csv_split(_, _, _, _)
csv_split(s, delimiter, acc, cur) ==
    IF s = <<>> THEN Append(acc, cur)
    ELSE IF s[1] = delimiter
         THEN csv_split(Tail(s), delimiter, Append(acc, cur), <<>>)
         ELSE csv_split(Tail(s), delimiter, acc, Append(cur, s[1]))

\* An empty line gives a row without any field.
csv_reader_row(s, delimiter) ==
    IF s = <<>> THEN <<>> ELSE csv_split(s, delimiter, <<>>, <<>>)

\* csv.reader with quoting=QUOTE_ALL and a quotechar on one line (the
\* reader is not strict and doublequote is on).  state is the state of the
\* parser of the csv module; acc holds the fields already complete, cur
\* the field being read.  At the end of the line the field being read is
\* saved, an enclosed field that was never closed included.
RECURSIVE csv_quoted(_, _, _, _, _, _)
csv_quoted(s, delimiter, quotechar, state, acc, cur) ==
    IF s = <<>>
    THEN IF state = "START_RECORD" THEN acc ELSE Append(acc, cur)
    ELSE LET c == s[1]
             go(st, a, f) == csv_quoted(Tail(s), delimiter, quotechar, st, a, f)
         IN CASE state \in {"START_RECORD", "START_FIELD"} ->
                    IF c = quotechar THEN go("IN_QUOTED_FIELD", acc, cur)
                    ELSE IF c = delimiter
                         THEN go("START_FIELD", Append(acc, cur), <<>>)
                         ELSE go("IN_FIELD", acc, Append(cur, c))
              [] state = "IN_FIELD" ->
                    IF c = delimiter
                    THEN go("START_FIELD", Append(acc, cur), <<>>)
                    ELSE go("IN_FIELD", acc, Append(cur, c))
              [] state = "IN_QUOTED_FIELD" ->
                    IF c = quotechar
                    THEN go("QUOTE_IN_QUOTED_FIELD", acc, cur)
                    ELSE go("IN_QUOTED_FIELD", acc, Append(cur, c))
              [] state = "QUOTE_IN_QUOTED_FIELD" ->
                    IF c = quotechar
                    THEN go("IN_QUOTED_FIELD", acc, Append(cur, c))
                    ELSE IF c = delimiter
                         THEN go("START_FIELD", Append(acc, cur), <<>>)
                         ELSE go("IN_FIELD", acc, Append(cur, c))

csv_reader_quoted(s, delimiter, quotechar) ==
    csv_quoted(s, delimiter, quotechar, "START_RECORD", <<>>, <<>>)

\* fields_enclosed_by is empty or one character.
csv_line_to_fields(csv_line, line_ending, field_ending, fields_enclosed_by) ==
    LET fields(row) ==
            [i \in 1..Len(row) |-> strip(row[i], Range(fields_enclosed_by))]
        reader(s) ==
            IF fields_enclosed_by = <<>>
            THEN csv_reader_row(s, field_ending)
            ELSE csv_reader_quoted(s, field_ending, fields_enclosed_by[1])
    IN fields(reader(rstrip(csv_line, Range(line_ending))))

\* The loop over descriptor.fields of Row.__init__: data is the dict built
\* so far; the first field whose index is beyond the raw fields raises
\* InvalidArchive.
RECURSIVE Row_data(_, _, _)
Row_data(fields, raw_fields, data) ==
    IF fields = <<>> THEN Ok(data)
    ELSE LET f == fields[1]
             put(v) == [t \in DOMAIN data \cup {f.term} |->
                           IF t = f.term THEN v ELSE data[t]]
         IN IF f.default # None
            THEN Row_data(Tail(fields), raw_fields, put(Val(f.default)))
            ELSE IF PyInRange(raw_fields, Val(f.index))
                 THEN Row_data(Tail(fields), raw_fields,
                               put(PyGet(raw_fields, Val(f.index))))
                 ELSE Raise("InvalidArchive")

Row__init__(csv_line, position, descriptor) ==
    LET row(raw_fields, d) ==
            IF d.status # "ok" THEN d
            ELSE Ok([descriptor |-> descriptor, position |-> position,
                     rowtype |-> descriptor.type, raw_fields |-> raw_fields,
                     data |-> d.value])
        with(raw_fields) ==
            row(raw_fields, Row_data(descriptor.fields, raw_fields, <<>>))
    IN with(csv_line_to_fields(csv_line,
                               descriptor.lines_terminated_by,
                               descriptor.fields_terminated_by,
                               descriptor.fields_enclosed_by))

\* CoreRow: the id is read from the raw fields without a guard, so that a
\* line shorter than the id column raises IndexError.
CoreRow(csv_line, position, descriptor) ==
    LET init(r) ==
            IF r.status # "ok" THEN r
            ELSE IF descriptor.id_index # None
                 THEN IF PyInRange(r.value.raw_fields, Val(descriptor.id_index))
                      THEN Ok([kind |-> "CoreRow", row |-> r.value,
                               id |-> Some(PyGet(r.value.raw_fields,
                                                 Val(descriptor.id_index)))])
                      ELSE Raise("IndexError")
                 ELSE Ok([kind |-> "CoreRow", row |-> r.value, id |-> None])
    IN init(Row__init__(csv_line, position, descriptor))

\* ExtensionRow: core_id is read from the raw fields without a guard.  With
\* a descriptor without coreid column (coreid_index None) the subscript
\* raises TypeError.
ExtensionRow(csv_line, position, descriptor) ==
    LET init(r) ==
            IF r.status # "ok" THEN r
            ELSE IF descriptor.coreid_index = None THEN Raise("TypeError")
            ELSE IF PyInRange(r.value.raw_fields, Val(descriptor.coreid_index))
                 THEN Ok([kind |-> "ExtensionRow", row |-> r.value,
                          core_id |-> PyGet(r.value.raw_fields,
                                            Val(descriptor.coreid_index))])
                 ELSE Raise("IndexError")
    IN init(Row__init__(csv_line, position, descriptor))

\* ------------------------------------------------------------------------
\* The text stream (io.open in text mode, newline = "\n"): a text and a
\* position in it.  Offsets are 0-based.
\* ------------------------------------------------------------------------
\* The offset just after the line that starts at offset p.
RECURSIVE LineEnd(_, _)
LineEnd(text, p) ==
    IF p >= Len(text) THEN Len(text)
    ELSE IF text[p + 1] = NL THEN p + 1
    ELSE LineEnd(text, p + 1)

\* stream.readline() at offset p: the text read (empty at the end of the
\* file); the stream is then at LineEnd(text, p).
readline(text, p) == SubSeq(text, p + 1, LineEnd(text, p))

\* stream.readlines(hint) with hint > 0, at offset p: lines are read until
\* the end of the file or until the total size of the lines read exceeds
\* hint.  The result is the offset reached; length is the size read so far.
RECURSIVE readlines(_, _, _, _)
readlines(text, p, hint, length) ==
    IF p >= Len(text) THEN p
    ELSE LET line(e) == IF e - p > hint - length THEN e
                        ELSE readlines(text, e, hint, length + (e - p))
         IN line(LineEnd(text, p))

\* The lines of a text from offset p on, as iterating the stream gives them.
RECURSIVE LinesFrom(_, _)
LinesFrom(text, p) ==
    IF p >= Len(text) THEN <<>>
    ELSE <<readline(text, p)>> \o LinesFrom(text, LineEnd(text, p))

\* ------------------------------------------------------------------------
\* dwca/files.py
\* ------------------------------------------------------------------------
\* len(line.encode(encoding)): every character of the model is one byte.
EncodedLen(line) == Len(line)

\* The start offset of each line of the stream.
RECURSIVE line_offsets_from(_, _, _)
line_offsets_from(text, p, offset) ==
    IF p >= Len(text) THEN <<>>
    ELSE <<offset>> \o line_offsets_from(text, LineEnd(text, p),
                                         offset + EncodedLen(readline(text, p)))

_get_all_line_offsets(text) == line_offsets_from(text, 0, 0)

\* CSVDataFile.__init__: the stream is left at offset 0.
CSVDataFile(text, file_descriptor) ==
    [file_descriptor |-> file_descriptor,
     _file_stream |-> [pos |-> 0, closed |-> FALSE],
     _line_offsets |-> _get_all_line_offsets(text),
     lines_to_ignore |-> file_descriptor.lines_to_ignore,
     _coreid_index |-> None]

Seek(f, p) == [f EXCEPT !._file_stream.pos = p]

\* The calls below give [f |-> the file object after the call,
\* status, value].
Done(f, out) == [f |-> f, status |-> out.status, value |-> out.value]

\* A seek or a read of a closed stream raises ValueError.
_position_file_after_header(f, text) ==
    IF f._file_stream.closed THEN Done(f, Raise("ValueError"))
    ELSE IF f.lines_to_ignore > 0
         THEN Done(Seek(f, readlines(text, 0, f.lines_to_ignore, 0)), Ok(<<>>))
         ELSE Done(Seek(f, 0), Ok(<<>>))

__iter__(f, text) == _position_file_after_header(f, text)

\* next(): the next line of the stream, StopIteration at its end.
next(f, text) ==
    IF f._file_stream.closed THEN Done(f, Raise("ValueError"))
    ELSE IF f._file_stream.pos >= Len(text) THEN Done(f, Raise("StopIteration"))
    ELSE Done(Seek(f, LineEnd(text, f._file_stream.pos)),
              Ok(readline(text, f._file_stream.pos)))

\* A _get_line_by_position that looks at the stream before it evaluates
\* the subscript.
_get_line_by_position_stream_first(f, text, position) ==
    IF f._file_stream.closed THEN Done(f, Raise("ValueError"))
    ELSE IF ~PyInRange(f._line_offsets, position + f.lines_to_ignore)
    THEN Done(f, Raise("IndexError"))
    ELSE LET at(p) == Done(Seek(f, LineEnd(text, p)), Ok(readline(text, p)))
         IN at(PyGet(f._line_offsets, position + f.lines_to_ignore))

\* _get_line_by_position: the subscript of _line_offsets is evaluated
\* before the seek.
_get_line_by_position(f, text, position) ==
    IF ~PyInRange(f._line_offsets, position + f.lines_to_ignore)
    THEN Done(f, Raise("IndexError"))
    ELSE IF f._file_stream.closed THEN Done(f, Raise("ValueError"))
    ELSE LET at(p) == Done(Seek(f, LineEnd(text, p)), Ok(readline(text, p)))
         IN at(PyGet(f._line_offsets, position + f.lines_to_ignore))

get_row_by_position(f, text, position) ==
    LET row(l) ==
            IF l.status # "ok" THEN l
            ELSE IF f.file_descriptor.represents_corefile
                 THEN Done(l.f, CoreRow(l.value, position, f.file_descriptor))
                 ELSE Done(l.f, ExtensionRow(l.value, position,
                                             f.file_descriptor))
    IN row(_get_line_by_position(f, text, position))

\* index.setdefault(core_id, array('L')).append(position)
setdefault_append(index, core_id, position) ==
    [k \in DOMAIN index \cup {core_id} |->
        IF k = core_id
        THEN (IF core_id \in DOMAIN index THEN index[core_id] ELSE <<>>)
             \o <<position>>
        ELSE index[k]]

\* The loop of _build_coreid_index, after __iter__: one next() per turn, the
\* line materialized as an ExtensionRow; an exception of the row leaves the
\* loop with the stream after the line read.
RECURSIVE build_loop(_, _, _, _)
build_loop(f, text, position, index) ==
    LET body(n, tmp) ==
            IF tmp.status # "ok" THEN Done(n.f, tmp)
            ELSE build_loop(n.f, text, position + 1,
                            setdefault_append(index, tmp.value.core_id,
                                              position))
        turn(n) ==
            IF n.status = "StopIteration" THEN Done(n.f, Ok(index))
            ELSE IF n.status # "ok" THEN n
            ELSE body(n, ExtensionRow(n.value, position, f.file_descriptor))
    IN turn(next(f, text))

_build_coreid_index(f, text) ==
    LET loop_over(i) == IF i.status # "ok" THEN i
                        ELSE build_loop(i.f, text, 0, <<>>)
    IN loop_over(__iter__(f, text))

\* A coreid_index property without the test of represents_corefile.
coreid_index_unguarded(f, text) ==
    IF f._coreid_index = None
    THEN LET cache(b) ==
                 IF b.status # "ok" THEN b
                 ELSE Done([b.f EXCEPT !._coreid_index = Some(b.value)],
                           Ok(b.value))
         IN cache(_build_coreid_index(f, text))
    ELSE Done(f, Ok(Val(f._coreid_index)))

\* A coreid_index property that scans the file at every access.
coreid_index_rebuilding(f, text) ==
    IF f.file_descriptor.represents_corefile
    THEN Done(f, Raise("AttributeError"))
    ELSE LET cache(b) ==
                 IF b.status # "ok" THEN b
                 ELSE Done([b.f EXCEPT !._coreid_index = Some(b.value)],
                           Ok(b.value))
         IN cache(_build_coreid_index(f, text))

\* The coreid_index property.
coreid_index(f, text) ==
    IF f.file_descriptor.represents_corefile
    THEN Done(f, Raise("AttributeError"))
    ELSE IF f._coreid_index = None
         THEN LET cache(b) ==
                      IF b.status # "ok" THEN b
                      ELSE Done([b.f EXCEPT !._coreid_index = Some(b.value)],
                                Ok(b.value))
              IN cache(_build_coreid_index(f, text))
         ELSE Done(f, Ok(Val(f._coreid_index)))

\* The list comprehension of get_all_rows_by_coreid over the positions ps.
RECURSIVE rows_at(_, _, _, _)
rows_at(f, text, ps, acc) ==
    IF ps = <<>> THEN Done(f, Ok(acc))
    ELSE LET collect(r) ==
                 IF r.status # "ok" THEN r
                 ELSE rows_at(r.f, text, Tail(ps), Append(acc, r.value))
         IN collect(get_row_by_position(f, text, ps[1]))

get_all_rows_by_coreid(f, text, core_id) ==
    LET rows(i) ==
            IF i.status # "ok" THEN i
            ELSE IF core_id \notin DOMAIN i.value THEN Done(i.f, Ok(<<>>))
            ELSE rows_at(i.f, text, i.value[core_id], <<>>)
    IN rows(coreid_index(f, text))

close(f) == [f EXCEPT !._file_stream.closed = TRUE]

\* ------------------------------------------------------------------------
\* dwca/star_record.py
\* ------------------------------------------------------------------------
\* A product that pairs the j-th elements of the lists, as zip(*lists).
product_zipped(lists) ==
    IF lists = <<>> THEN << <<>> >>
    ELSE LET n == CHOOSE m \in {Len(lists[i]) : i \in 1..Len(lists)} :
                     \A i \in 1..Len(lists) : m <= Len(lists[i])
         IN [j \in 1..n |-> [i \in 1..Len(lists) |-> lists[i][j]]]

\* A product in which the first list varies fastest.
RECURSIVE product_first_fastest(_)
product_first_fastest(lists) ==
    IF lists = <<>> THEN << <<>> >>
    ELSE LET RECURSIVE with(_, _)
             with(rests, xs) ==
                 IF rests = <<>> THEN <<>>
                 ELSE [j \in 1..Len(xs) |-> <<xs[j]>> \o rests[1]]
                      \o with(Tail(rests), xs)
         IN with(product_first_fastest(Tail(lists)), lists[1])

\* itertools.product(*lists): the tuples in lexicographic order, the last
\* list varying fastest; one empty tuple for no list at all.
RECURSIVE product(_)
product(lists) ==
    IF lists = <<>> THEN << <<>> >>
    ELSE LET RECURSIVE with(_, _)
             with(xs, rest) ==
                 IF xs = <<>> THEN <<>>
                 ELSE [j \in 1..Len(rest) |-> <<xs[1]>> \o rest[j]]
                      \o with(Tail(xs), rest)
         IN with(lists[1], product(Tail(lists)))

\* A gathering that takes the union of the key sets whatever the join mode.
RECURSIVE gather_coreids_union(_, _, _, _, _, _)
gather_coreids_union(fs, texts, files_to_join, n, how, common) ==
    IF n > Len(files_to_join) THEN [f |-> fs, status |-> "ok", value |-> common]
    ELSE LET i == files_to_join[n]
             gather(idx, fs2) ==
                 IF idx.status # "ok"
                 THEN [f |-> fs2, status |-> idx.status, value |-> {}]
                 ELSE gather_coreids_union(fs2, texts, files_to_join, n + 1,
                         how,
                         IF n = 1 THEN DOMAIN idx.value
                         ELSE common \cup DOMAIN idx.value)
             with(idx) == gather(idx, [fs EXCEPT ![i] = idx.f])
         IN with(coreid_index(fs[i], texts[i]))

\* The loop of StarRecordIterator.__init__ over files_to_join[n..]: fs are
\* the file objects, common the set gathered so far.  Every access to
\* coreid_index may build the index of the file, or raise.
RECURSIVE gather_coreids(_, _, _, _, _, _)
gather_coreids(fs, texts, files_to_join, n, how, common) ==
    IF n > Len(files_to_join) THEN [f |-> fs, status |-> "ok", value |-> common]
    ELSE LET i == files_to_join[n]
             gather(idx, fs2) ==
                 IF idx.status # "ok"
                 THEN [f |-> fs2, status |-> idx.status, value |-> {}]
                 ELSE gather_coreids(fs2, texts, files_to_join, n + 1, how,
                         IF n = 1 THEN DOMAIN idx.value
                         ELSE IF how = "inner" THEN common \cap DOMAIN idx.value
                         ELSE IF how = "outer" THEN common \cup DOMAIN idx.value
                         ELSE common)
             with(idx) == gather(idx, [fs EXCEPT ![i] = idx.f])
         IN with(coreid_index(fs[i], texts[i]))

\* The object that __init__ builds; order is the order in which
\* iter(common_core) gives the keys of the set.
StarRecordIterator(files_to_join, common_core, order) ==
    [files_to_join |-> files_to_join,
     common_core |-> common_core,
     _common_core_iterator |-> order,
     _cross_product_iterator |-> <<>>,
     _current_coreid |-> None,
     _files_with_current_coreid |-> <<>>]

\* The index of a file that __next__ reads through the coreid_index
\* property.
index_of(fs, texts, i) == coreid_index(fs[i], texts[i]).value

\* A zip that pairs the positions with the files in reverse order.
zip_reversed(positions, fs) ==
    [j \in 1..(IF Len(positions) < Len(fs) THEN Len(positions) ELSE Len(fs))
        |-> [position |-> positions[j], file |-> fs[Len(fs) - j + 1]]]

\* zip(next_positions, _files_with_current_coreid)
zip(positions, fs) ==
    [j \in 1..(IF Len(positions) < Len(fs) THEN Len(positions) ELSE Len(fs))
        |-> [position |-> positions[j], file |-> fs[j]]]

\* A __next__ that, when the product of a key is exhausted, passes over the
\* key that follows it in the iterator.
RECURSIVE star__next__skipping(_, _, _)
star__next__skipping(s, fs, texts) ==
    IF s._cross_product_iterator # <<>> /\ s._cross_product_iterator[1] # <<>>
    THEN [s |-> [s EXCEPT !._cross_product_iterator = Tail(@)],
          status |-> "ok",
          value |-> zip(s._cross_product_iterator[1],
                        s._files_with_current_coreid)]
    ELSE LET advance(s1, coreid, with) ==
                 star__next__skipping(
                     [s1 EXCEPT
                        !._common_core_iterator =
                            IF Len(@) > 1 THEN Tail(Tail(@)) ELSE Tail(@),
                        !._current_coreid = Some(coreid),
                        !._files_with_current_coreid = with,
                        !._cross_product_iterator =
                            product([j \in 1..Len(with) |->
                                        index_of(fs, texts, with[j])[coreid]])],
                     fs, texts)
             files_with(s1, coreid) ==
                 advance(s1, coreid,
                         SelectSeq(s1.files_to_join,
                             LAMBDA i : coreid \in DOMAIN index_of(fs, texts, i)))
             exhausted(s1) ==
                 IF s1._common_core_iterator = <<>>
                 THEN [s |-> s1, status |-> "StopIteration", value |-> <<>>]
                 ELSE files_with(s1, s1._common_core_iterator[1])
         IN exhausted([s EXCEPT !._cross_product_iterator =
                          IF @ = <<>> THEN <<>> ELSE Tail(@)])

\* StarRecordIterator.__next__; gives [s |-> the iterator after the call,
\* status, value].  An exhausted product and an empty tuple both lead to
\* the next coreid, and to the call of next(self).
RECURSIVE star__next__(_, _, _)
star__next__(s, fs, texts) ==
    IF s._cross_product_iterator # <<>> /\ s._cross_product_iterator[1] # <<>>
    THEN [s |-> [s EXCEPT !._cross_product_iterator = Tail(@)],
          status |-> "ok",
          value |-> zip(s._cross_product_iterator[1],
                        s._files_with_current_coreid)]
    ELSE LET advance(s1, coreid, with) ==
                 star__next__(
                     [s1 EXCEPT
                        !._common_core_iterator = Tail(@),
                        !._current_coreid = Some(coreid),
                        !._files_with_current_coreid = with,
                        !._cross_product_iterator =
                            product([j \in 1..Len(with) |->
                                        index_of(fs, texts, with[j])[coreid]])],
                     fs, texts)
             files_with(s1, coreid) ==
                 advance(s1, coreid,
                         SelectSeq(s1.files_to_join,
                             LAMBDA i : coreid \in DOMAIN index_of(fs, texts, i)))
             exhausted(s1) ==
                 IF s1._common_core_iterator = <<>>
                 THEN [s |-> s1, status |-> "StopIteration", value |-> <<>>]
                 ELSE files_with(s1, s1._common_core_iterator[1])
         IN exhausted([s EXCEPT !._cross_product_iterator =
                          IF @ = <<>> THEN <<>> ELSE Tail(@)])

\* The rows of a star record, materialized when the caller iterates it.
RECURSIVE star_rows(_, _, _, _)
star_rows(fs, texts, record, acc) ==
    IF record = <<>> THEN [f |-> fs, status |-> "ok", value |-> acc]
    ELSE LET i == record[1].file
             collect(r, fs2) ==
                 IF r.status # "ok"
                 THEN [f |-> fs2, status |-> r.status, value |-> <<>>]
                 ELSE star_rows(fs2, texts, Tail(record), Append(acc, r.value))
             with(r) == collect(r, [fs EXCEPT ![i] = r.f])
         IN with(get_row_by_position(fs[i], texts[i], record[1].position))

\* ------------------------------------------------------------------------
\* dwca/read.py
\* ------------------------------------------------------------------------
datasetID == "http://rs.tdwg.org/dwc/terms/datasetID"

\* CoreRow.link_source_metadata: the metadata of the dataset the row names,
\* None without source metadata or without such a dataset.
link_source_metadata(row, archive_source_metadata) ==
    IF archive_source_metadata # <<>> /\ datasetID \in DOMAIN row.row.data
    THEN IF row.row.data[datasetID] \in DOMAIN archive_source_metadata
         THEN Some(archive_source_metadata[row.row.data[datasetID]])
         ELSE None
    ELSE None

\* DwCAReader.next(): the core row at _corefile_pointer, linked to the
\* extension files and the source metadata.  Every IndexError raised in
\* the try block is turned into StopIteration.
DwCAReader_next(r, fs, texts) ==
    LET try(row) ==
            IF row.status = "IndexError"
            THEN [r |-> r, f |-> row.f, status |-> "StopIteration",
                  value |-> <<>>]
            ELSE IF row.status # "ok"
            THEN [r |-> r, f |-> row.f, status |-> row.status, value |-> <<>>]
            ELSE [r |-> [r EXCEPT !._corefile_pointer = Some(Val(@) + 1)],
                  f |-> row.f, status |-> "ok",
                  value |-> [kind |-> "CoreRow", row |-> row.value.row,
                             id |-> row.value.id,
                             extension_data_files |->
                                 [i \in 1..Len(fs) - 1 |-> i + 1],
                             source_metadata |->
                                 link_source_metadata(row.value,
                                                      r.source_metadata)]]
    IN try(get_row_by_position(fs[1], texts[1], Val(r._corefile_pointer)))

\* ------------------------------------------------------------------------
\* The state
\* ------------------------------------------------------------------------
VARIABLES
    disk,    \* disk[i]: the text of data file i
    files,   \* files[i]: the CSVDataFile object opened on disk[i]
    loop,    \* the caller's for loop, over files[1] or over the reader: its
             \* state, what it was given so far, whether other calls were
             \* made meanwhile
    result,  \* the last call and its outcome
    star,    \* the StarRecordIterator object, None before its construction
    join,    \* the caller of the StarRecordIterator: the join mode it asks
             \* for and the records that next() gave it
    reader,  \* the DwCAReader object over files[1] (the core file) and
             \* files[2..] (the extension files)
    archive, \* the archive that the path given to DwCAReader designates
    tmpdirs  \* the temporary directories that exist

vars == <<disk, files, loop, result, star, join, reader, archive, tmpdirs>>

\* ------------------------------------------------------------------------
\* Inputs
\* ------------------------------------------------------------------------
\* Header lines of 1, 2 and 3 characters; data lines whose first column is
\* the key.
HeaderLineSet == {<<NL>>, <<"i", NL>>, <<"i", "d", NL>>}
DataLineSet == {<<"1", NL>>, <<"2", NL>>}
Keys == {<<"1">>, <<"2">>}

SeqsUpTo(S, n) == UNION {[1..k -> S] : k \in 0..n}

RECURSIVE Flatten(_)
Flatten(ls) == IF ls = <<>> THEN <<>> ELSE ls[1] \o Flatten(Tail(ls))

\* The descriptor of a data file, as make_from_metafile_section builds it:
\* a core file has an id column, an extension file a coreid column.
Descriptor(core, key_index, fields, ignore) ==
    [represents_corefile |-> core,
     type |-> IF core THEN "Taxon" ELSE "Description",
     id_index |-> IF core THEN Some(key_index) ELSE None,
     coreid_index |-> IF core THEN None ELSE Some(key_index),
     fields |-> fields,
     lines_to_ignore |-> ignore,
     lines_terminated_by |-> <<NL>>,
     fields_terminated_by |-> TAB,
     fields_enclosed_by |-> <<>>]

Field(term, index, default) == [term |-> term, index |-> index, default |-> default]

Idle == [state |-> "idle", yielded |-> <<>>, interleaved |-> FALSE]
NoReader == [source_metadata |-> <<>>, _corefile_pointer |-> None]
NoArchive == <<>>
NoJoin == [how |-> "inner", state |-> "idle", records |-> <<>>]
NoResult == [op |-> "none", file |-> 0, arg |-> <<>>, closed |-> FALSE,
             status |-> "ok", value |-> <<>>]

\* One data file with h header lines and up to MaxRows data lines.
Init ==
    \E core \in BOOLEAN, h \in 0..MaxHeader :
    \E hs \in [1..h -> HeaderLineSet], ds \in SeqsUpTo(DataLineSet, MaxRows) :
        /\ disk = <<Flatten(hs \o ds)>>
        /\ files = <<CSVDataFile(Flatten(hs \o ds),
                                 Descriptor(core, 0, <<>>, h))>>
        /\ loop = Idle
        /\ result = NoResult
        /\ star = None
        /\ join = NoJoin
        /\ reader = NoReader
        /\ archive = NoArchive
        /\ tmpdirs = {}

\* ------------------------------------------------------------------------
\* The calls on a CSVDataFile
\* ------------------------------------------------------------------------
Call(op, i, arg, out) ==
    /\ files' = [files EXCEPT ![i] = out.f]
    /\ result' = [op |-> op, file |-> i, arg |-> arg,
                  closed |-> files[i]._file_stream.closed,
                  status |-> out.status, value |-> out.value]

\* A call on files[1] other than next() while its loop is running.
Interleave(i) ==
    loop' = IF i = 1 /\ loop.state = "active"
            THEN [loop EXCEPT !.interleaved = TRUE] ELSE loop

\* iter(files[1]): the caller starts a loop.
Iter ==
    /\ LET started(out) ==
               /\ Call("__iter__", 1, <<>>, out)
               /\ loop' = IF out.status = "ok"
                          THEN [state |-> "active", yielded |-> <<>>,
                                interleaved |-> FALSE]
                          ELSE [loop EXCEPT !.state = "failed"]
       IN started(__iter__(files[1], disk[1]))
    /\ UNCHANGED <<disk, star, join, reader, archive, tmpdirs>>

\* next(files[1]) of the running loop.
Next_ ==
    /\ loop.state = "active"
    /\ Len(loop.yielded) <= Len(files[1]._line_offsets)
    /\ LET given(out) ==
               /\ Call("next", 1, <<>>, out)
               /\ loop' = IF out.status = "ok"
                          THEN [loop EXCEPT !.yielded = Append(@, out.value)]
                          ELSE IF out.status = "StopIteration"
                               THEN [loop EXCEPT !.state = "done"]
                               ELSE [loop EXCEPT !.state = "failed"]
       IN given(next(files[1], disk[1]))
    /\ UNCHANGED <<disk, star, join, reader, archive, tmpdirs>>

GetRowByPosition(i) ==
    \E position \in -1..MaxRows :
        /\ Call("get_row_by_position", i, position,
                get_row_by_position(files[i], disk[i], position))
        /\ Interleave(i)
        /\ UNCHANGED <<disk, star, join, reader, archive, tmpdirs>>

CoreidIndex(i) ==
    /\ Call("coreid_index", i, <<>>, coreid_index(files[i], disk[i]))
    /\ Interleave(i)
    /\ UNCHANGED <<disk, star, join, reader, archive, tmpdirs>>

GetAllRowsByCoreid(i) ==
    \E core_id \in Keys :
        /\ Call("get_all_rows_by_coreid", i, core_id,
                get_all_rows_by_coreid(files[i], disk[i], core_id))
        /\ Interleave(i)
        /\ UNCHANGED <<disk, star, join, reader, archive, tmpdirs>>

Close(i) ==
    /\ Call("close", i, <<>>, Done(close(files[i]), Ok(<<>>)))
    /\ Interleave(i)
    /\ UNCHANGED <<disk, star, join, reader, archive, tmpdirs>>

Next ==
    \/ Iter
    \/ Next_
    \/ \E i \in DOMAIN files : GetRowByPosition(i)
    \/ \E i \in DOMAIN files : CoreidIndex(i)
    \/ \E i \in DOMAIN files : GetAllRowsByCoreid(i)
    \/ \E i \in DOMAIN files : Close(i)

Spec == Init /\ [][Next]_vars

\* ------------------------------------------------------------------------
\* The join of several data files
\* ------------------------------------------------------------------------
MaxFiles == 3

Perms(S) == {o \in [1..Cardinality(S) -> S] : Range(o) = S}

\* Up to MaxFiles data files without header line, joined in the order
\* 1, 2, ..., each a core or an extension file.
InitStar ==
    \E n \in 1..MaxFiles, how \in {"inner", "outer"} :
    \E core \in [1..n -> BOOLEAN],
       ds \in [1..n -> SeqsUpTo(DataLineSet, MaxRows)] :
        /\ disk = [i \in 1..n |-> Flatten(ds[i])]
        /\ files = [i \in 1..n |->
                      CSVDataFile(Flatten(ds[i]),
                                  Descriptor(core[i], 0, <<>>, 0))]
        /\ loop = Idle
        /\ result = NoResult
        /\ star = None
        /\ join = [how |-> how, state |-> "idle", records |-> <<>>]
        /\ reader = NoReader
        /\ archive = NoArchive
        /\ tmpdirs = {}

\* StarRecordIterator(files, how)
StarNew ==
    /\ star = None
    /\ LET files_to_join == [i \in 1..Len(files) |-> i]
           init(g) ==
               /\ files' = g.f
               /\ result' = [op |-> "StarRecordIterator", file |-> 0,
                             arg |-> <<>>, closed |-> FALSE,
                             status |-> g.status, value |-> <<>>]
               /\ IF g.status = "ok"
                  THEN /\ \E order \in Perms(g.value) :
                             star' = Some(StarRecordIterator(files_to_join,
                                                             g.value, order))
                       /\ join' = [join EXCEPT !.state = "active"]
                  ELSE /\ star' = None
                       /\ join' = [join EXCEPT !.state = "failed"]
       IN init(gather_coreids(files, disk, files_to_join, 1, join.how, {}))
    /\ UNCHANGED <<disk, loop, reader, archive, tmpdirs>>

\* next(star) of the caller's loop over the star records, and the calls
\* that the caller makes after the StopIteration that ended the loop; arg
\* is the state of the loop when the call is made.
StarNext ==
    /\ star # None
    /\ join.state \in {"active", "done"}
    /\ LET given(n) ==
               /\ star' = Some(n.s)
               /\ result' = [op |-> "star_next", file |-> 0, arg |-> join.state,
                             closed |-> FALSE, status |-> n.status,
                             value |-> n.value]
               /\ join' = IF n.status = "ok"
                          THEN [join EXCEPT !.records =
                                   Append(@, [coreid |-> Val(n.s._current_coreid),
                                              record |-> n.value])]
                          ELSE [join EXCEPT !.state = "done"]
       IN given(star__next__(Val(star), files, disk))
    /\ UNCHANGED <<disk, files, loop, reader, archive, tmpdirs>>

\* The caller iterates the star record it was given last.
StarRows ==
    /\ result.op = "star_next"
    /\ result.status = "ok"
    /\ LET given(r) ==
               /\ files' = r.f
               /\ result' = [op |-> "star_rows", file |-> 0,
                             arg |-> result.value, closed |-> FALSE,
                             status |-> r.status, value |-> r.value]
       IN given(star_rows(files, disk, result.value, <<>>))
    /\ UNCHANGED <<disk, loop, star, join, reader, archive, tmpdirs>>

NextStar == StarNew \/ StarNext \/ StarRows

SpecStar == InitStar /\ [][NextStar]_vars

\* ------------------------------------------------------------------------
\* The iteration of a DwCAReader
\* ------------------------------------------------------------------------
locality == "http://rs.tdwg.org/dwc/terms/locality"

\* Core lines of no, one and two columns.
CoreLineSet == {<<NL>>, <<"1", NL>>, <<"1", TAB, "a", NL>>, <<"2", TAB, "b", NL>>}
CoreFieldsSet == {<<>>, <<Field(locality, Some(0), None)>>,
                  <<Field(locality, Some(1), None)>>}

\* An archive of one core file with at most one header line, whose id is
\* its first or its second column.
InitReader ==
    \E id_index \in 0..1, fields \in CoreFieldsSet, h \in 0..1 :
    \E hs \in [1..h -> {<<"i", "d", NL>>}], ds \in SeqsUpTo(CoreLineSet, MaxRows) :
        /\ disk = <<Flatten(hs \o ds)>>
        /\ files = <<CSVDataFile(Flatten(hs \o ds),
                                 Descriptor(TRUE, id_index, fields, h))>>
        /\ loop = Idle
        /\ result = NoResult
        /\ star = None
        /\ join = NoJoin
        /\ reader = NoReader
        /\ archive = NoArchive
        /\ tmpdirs = {}

\* iter(reader): the caller starts a loop over the core rows.
ReaderIter ==
    /\ reader' = [reader EXCEPT !._corefile_pointer = Some(0)]
    /\ loop' = [state |-> "active", yielded |-> <<>>, interleaved |-> FALSE]
    /\ result' = [op |-> "DwCAReader.__iter__", file |-> 0, arg |-> <<>>,
                  closed |-> FALSE, status |-> "ok", value |-> <<>>]
    /\ UNCHANGED <<disk, files, star, join, archive, tmpdirs>>

\* next(reader) of the running loop.
ReaderNext ==
    /\ loop.state = "active"
    /\ LET given(n) ==
               /\ reader' = n.r
               /\ files' = [files EXCEPT ![1] = n.f]
               /\ result' = [op |-> "DwCAReader.next", file |-> 0, arg |-> <<>>,
                             closed |-> files[1]._file_stream.closed,
                             status |-> n.status, value |-> n.value]
               /\ loop' = IF n.status = "ok"
                          THEN [loop EXCEPT !.yielded = Append(@, n.value)]
                          ELSE IF n.status = "StopIteration"
                               THEN [loop EXCEPT !.state = "done"]
                               ELSE [loop EXCEPT !.state = "failed"]
       IN given(DwCAReader_next(reader, files, disk))
    /\ UNCHANGED <<disk, star, join, archive, tmpdirs>>

NextReader == ReaderIter \/ ReaderNext

SpecReader == InitReader /\ [][NextReader]_vars

\* ------------------------------------------------------------------------
\* What the file holds
\* ------------------------------------------------------------------------
PhysicalLines(i) == LinesFrom(disk[i], 0)
RowCount(i) == Len(PhysicalLines(i)) - files[i].lines_to_ignore

\* The data line at 0-based position p: the physical line after the
\* header lines and p data lines.
DataLine(i, p) == PhysicalLines(i)[files[i].lines_to_ignore + p + 1]
DataLines(i) == [k \in 1..RowCount(i) |-> DataLine(i, k - 1)]

\* The key (id or coreid column) of a line.
KeyColumn(d) == IF d.represents_corefile THEN Val(d.id_index) ELSE Val(d.coreid_index)
KeyOfLine(i, line) ==
    LET d == files[i].file_descriptor
    IN PyGet(csv_line_to_fields(line, d.lines_terminated_by,
                                d.fields_terminated_by, d.fields_enclosed_by),
             KeyColumn(d))

\* The positions of the data lines of file i whose key is k, ascending.
PositionsOf(i, k) ==
    SelectSeq([j \in 1..RowCount(i) |-> j - 1],
              LAMBDA p : KeyOfLine(i, DataLine(i, p)) = k)
KeysOf(i) == {KeyOfLine(i, DataLine(i, p)) : p \in 0..RowCount(i) - 1}

IsExtension(i) == ~files[i].file_descriptor.represents_corefile
IsCore(i) == files[i].file_descriptor.represents_corefile
IsClosed(i) == files[i]._file_stream.closed

\* ------------------------------------------------------------------------
\* C1. Round trip: a loop over the file that ran to its end without any
\* other call yields exactly (number of physical lines - header lines)
\* lines, and the k-th line yielded is the line that positional access
\* reads at position k.
\* ------------------------------------------------------------------------
C1_RoundTrip ==
    (loop.state = "done" /\ ~loop.interleaved) =>
        /\ Len(loop.yielded) = RowCount(1)
        /\ \A k \in 1..Len(loop.yielded) :
              LET same(l) == l.status = "ok" /\ l.value = loop.yielded[k]
              IN same(_get_line_by_position(files[1], disk[1], k - 1))

\* ------------------------------------------------------------------------
\* C2. Calls to get_row_by_position, get_all_rows_by_coreid or coreid_index
\* made while a loop over the same file is running do not change what the
\* loop yields: a loop that reached its end has yielded what an undisturbed
\* loop yields, every line after the header once and in file order.
\* ------------------------------------------------------------------------
UndisturbedLoop(i) ==
    LinesFrom(disk[i],
              _position_file_after_header(files[i], disk[i]).f._file_stream.pos)

C2_InterleavedCallsKeepIteration ==
    loop.state = "done" => loop.yielded = UndisturbedLoop(1)

\* ------------------------------------------------------------------------
\* C3. Join cardinality: the records of one full pass over a
\* StarRecordIterator are, for each key of common_core, exactly one record
\* for every element of the Cartesian product of the position lists that
\* the files containing the key hold for it, and no other record; the
\* number of records of a key is the product of the lengths of those lists.
\* ------------------------------------------------------------------------
CachedIndex(i) == Val(files[i]._coreid_index)

\* The files of files_to_join whose index contains k, in the order given.
FilesWith(k) ==
    SelectSeq(Val(star).files_to_join, LAMBDA i : k \in DOMAIN CachedIndex(i))

\* All the star records of key k: one position of its list for each file.
Combinations(k) ==
    LET over(with) ==
            {c \in [1..Len(with) -> [position : 0..MaxRows + MaxHeader,
                                     file : Range(with)]] :
                \A j \in 1..Len(with) :
                   /\ c[j].file = with[j]
                   /\ c[j].position \in Range(CachedIndex(with[j])[k])}
    IN over(FilesWith(k))

RECURSIVE ProductOfLengths(_, _)
ProductOfLengths(with, k) ==
    IF with = <<>> THEN 1
    ELSE Len(CachedIndex(with[1])[k]) * ProductOfLengths(Tail(with), k)

RecordsOf(k) == {j \in 1..Len(join.records) : join.records[j].coreid = k}

KeySets == {DOMAIN CachedIndex(i) : i \in Range(Val(star).files_to_join)}

C4_CommonCore ==
    star # None =>
        Val(star).common_core =
            IF join.how = "inner"
            THEN {k \in UNION KeySets : \A K \in KeySets : k \in K}
            ELSE UNION KeySets

\* An inner join, some records into its pass, where the intersection is
\* neither the union nor the key set of the first or the last file.
C4_Witness ==
    /\ star # None
    /\ join.how = "inner"
    /\ Len(join.records) > 0
    /\ Val(star).common_core # UNION KeySets
    /\ Val(star).common_core # DOMAIN CachedIndex(1)
    /\ Val(star).common_core # DOMAIN CachedIndex(Len(files))

\* ------------------------------------------------------------------------
\* C5. coreid_index of the core data file is a mapping from each core row
\* id to the positions of the core rows with that id.
\* ------------------------------------------------------------------------
ExpectedIndex(i) == [k \in KeysOf(i) |-> PositionsOf(i, k)]

C5_CoreFileHasCoreidIndex ==
    (result.op = "coreid_index" /\ IsCore(result.file) /\ ~result.closed) =>
        /\ result.status = "ok"
        /\ result.value = ExpectedIndex(result.file)

C7_RowsByCoreid ==
    (result.op = "get_all_rows_by_coreid" /\ IsExtension(result.file)
     /\ ~result.closed) =>
        /\ result.status = "ok"
        /\ [j \in 1..Len(result.value) |-> result.value[j].row.position]
              = PositionsOf(result.file, result.arg)
        /\ \A j \in 1..Len(result.value) :
              /\ result.value[j].core_id = result.arg
              /\ result.value[j].row.raw_fields =
                    csv_line_to_fields(
                        DataLine(result.file, result.value[j].row.position),
                        <<NL>>, TAB, <<>>)

\* ------------------------------------------------------------------------
\* C8. The position lists of the coreid index of an extension file are
\* strictly ascending, pairwise disjoint, and their union is the set
\* 0 .. rowCount - 1 of the data-line positions of the file.
\* ------------------------------------------------------------------------
Ascending(ps) == \A a, b \in 1..Len(ps) : a < b => ps[a] < ps[b]

C8_IndexPartition ==
    \A i \in DOMAIN files :
        (IsExtension(i) /\ files[i]._coreid_index # None) =>
            LET index == Val(files[i]._coreid_index)
            IN /\ \A k \in DOMAIN index : Ascending(index[k])
               /\ \A k1, k2 \in DOMAIN index :
                     k1 # k2 => Range(index[k1]) \cap Range(index[k2]) = {}
               /\ UNION {Range(index[k]) : k \in DOMAIN index}
                     = 0..RowCount(i) - 1

\* ------------------------------------------------------------------------
\* C9. After close(), every read operation (get_row_by_position,
\* iteration, coreid_index, get_all_rows_by_coreid) raises an error and
\* none returns data, also when the coreid index was built before close().
\* ------------------------------------------------------------------------
ReadOps == {"__iter__", "next", "get_row_by_position", "coreid_index",
            "get_all_rows_by_coreid"}

C9_ReadAfterCloseRaises ==
    (result.op \in ReadOps /\ result.closed) => result.status # "ok"

\* ------------------------------------------------------------------------
\* C10. A loop over a DwCAReader yields one CoreRow for every data line of
\* the core file, in file order; an error raised while a row is
\* materialized propagates, so that the loop never ends without an error
\* while data lines remain.
\* ------------------------------------------------------------------------
C10_ReaderYieldsEveryCoreRow ==
    loop.state = "done" =>
        /\ Len(loop.yielded) = RowCount(1)
        /\ \A k \in 1..Len(loop.yielded) : loop.yielded[k].row.position = k - 1

\* ------------------------------------------------------------------------
\* The materialization of rows
\* ------------------------------------------------------------------------
country == "http://rs.tdwg.org/dwc/terms/country"

\* The <field> tags of a term: with a column, with a default, with both.
FieldsOf(term, index) ==
    {Field(term, Some(index), None), Field(term, Some(index), Some(<<"B">>)),
     Field(term, None, Some(<<"B">>))}

\* No field, a field for country (column 1), and with it a field for
\* locality (column 2).
RowFieldsSet ==
    {<<>>} \cup {<<c>> : c \in FieldsOf(country, 1)}
           \cup {<<c, l>> : c \in FieldsOf(country, 1), l \in FieldsOf(locality, 2)}

\* Lines of one, two and three columns; the second column may be empty.
RowLineSet == {<<"1", NL>>, <<"1", TAB, NL>>, <<"1", TAB, "F", NL>>,
               <<"2", TAB, "F", TAB, "x", NL>>}

\* One data file without header line, the key in its first column.
InitRow ==
    \E core \in BOOLEAN, fields \in RowFieldsSet :
    \E ds \in SeqsUpTo(RowLineSet, MaxRows) :
        /\ disk = <<Flatten(ds)>>
        /\ files = <<CSVDataFile(Flatten(ds), Descriptor(core, 0, fields, 0))>>
        /\ loop = Idle
        /\ result = NoResult
        /\ star = None
        /\ join = NoJoin
        /\ reader = NoReader
        /\ archive = NoArchive
        /\ tmpdirs = {}

NextRow == \E i \in DOMAIN files : GetRowByPosition(i)

SpecRow == InitRow /\ [][NextRow]_vars

\* The raw fields of the data line at position p of file i.
RawFieldsAt(i, p) ==
    csv_line_to_fields(DataLine(i, p),
                       files[i].file_descriptor.lines_terminated_by,
                       files[i].file_descriptor.fields_terminated_by,
                       files[i].file_descriptor.fields_enclosed_by)

\* The last call materialized, or failed to materialize, a row of a data
\* line of the file.
RowCall ==
    /\ result.op = "get_row_by_position"
    /\ result.arg \in 0..RowCount(result.file) - 1

FieldsOfCall == files[result.file].file_descriptor.fields

\* ------------------------------------------------------------------------
\* C11. Materializing a row whose descriptor has a field with a column
\* index greater than or equal to the number of raw fields of the line
\* raises InvalidArchive: no row is produced for such a line.
\* ------------------------------------------------------------------------
C11_MissingColumnRaises ==
    (RowCall /\ \E j \in 1..Len(FieldsOfCall) :
                   /\ FieldsOfCall[j].index # None
                   /\ Val(FieldsOfCall[j].index)
                         >= Len(RawFieldsAt(result.file, result.arg)))
        => result.status = "InvalidArchive"

\* ------------------------------------------------------------------------
\* C12. In a materialized row, the value of a descriptor field with a
\* column index is the raw field at that index, and the value of a field
\* without column index is the default of the field.
\* ------------------------------------------------------------------------
C12_ColumnBeforeDefault ==
    (RowCall /\ result.status = "ok") =>
        \A j \in 1..Len(FieldsOfCall) :
            result.value.row.data[FieldsOfCall[j].term] =
                IF FieldsOfCall[j].index # None
                THEN PyGet(result.value.row.raw_fields, Val(FieldsOfCall[j].index))
                ELSE Val(FieldsOfCall[j].default)

\* ------------------------------------------------------------------------
\* C13. Partial default: the value of a field that has both a column index
\* and a default is the column of the line when that column is not empty,
\* and the default when it is empty.
\* ------------------------------------------------------------------------
C13_PartialDefault ==
    (RowCall /\ result.status = "ok") =>
        \A j \in 1..Len(FieldsOfCall) :
            (/\ FieldsOfCall[j].index # None
             /\ FieldsOfCall[j].default # None
             /\ PyInRange(result.value.row.raw_fields, Val(FieldsOfCall[j].index)))
            => result.value.row.data[FieldsOfCall[j].term] =
                 IF PyGet(result.value.row.raw_fields, Val(FieldsOfCall[j].index)) # <<>>
                 THEN PyGet(result.value.row.raw_fields, Val(FieldsOfCall[j].index))
                 ELSE Val(FieldsOfCall[j].default)

\* ------------------------------------------------------------------------
\* C14. A full pass over a StarRecordIterator visits every key of
\* common_core exactly once: every key has records and the records of a
\* key are consecutive.  The pass ends with StopIteration after finitely
\* many next() calls: every call that does not end the pass consumes a key
\* or a combination of the current key, and none is ever added.  Every
\* next() call after the end raises StopIteration again and gives no
\* record.
\* ------------------------------------------------------------------------
VisitedOnce ==
    (star # None /\ join.state = "done") =>
        /\ \A j \in 1..Len(join.records) :
              join.records[j].coreid \in Val(star).common_core
        /\ \A k \in Val(star).common_core :
              /\ RecordsOf(k) # {}
              /\ \A a, b \in RecordsOf(k) :
                    \A j \in a..b : join.records[j].coreid = k

EndIsFinal ==
    join.state = "done" => (join' = join /\ result'.status = "StopIteration")

\* What is left of the pass: the keys not yet visited, then the
\* combinations of the current key not yet given.
Remaining(s) == <<Len(s._common_core_iterator), Len(s._cross_product_iterator)>>

PassProgresses ==
    (star # None /\ join.state = "active" /\ result'.op = "star_next") =>
        \/ join'.state = "done"
        \/ Remaining(Val(star'))[1] < Remaining(Val(star))[1]
        \/ /\ Remaining(Val(star'))[1] = Remaining(Val(star))[1]
           /\ Remaining(Val(star'))[2] < Remaining(Val(star))[2]

C14_FullPass ==
    /\ []VisitedOnce
    /\ [][EndIsFinal /\ PassProgresses]_vars

\* A next() call after the end of a pass over two keys, one of them with
\* several records.
C14_Witness ==
    /\ star # None
    /\ result.op = "star_next"
    /\ result.status = "StopIteration"
    /\ Cardinality(Val(star).common_core) = 2
    /\ \E k \in Val(star).common_core : Cardinality(RecordsOf(k)) >= 2
    /\ result.arg = "done"

\* ------------------------------------------------------------------------
\* C15. In outer mode, the star record given for a key k holds exactly one
\* row for each file of files_to_join whose index contains k, in the order
\* of files_to_join, each the row at one of the positions that the file
\* holds for k; a file without k gives no row and no placeholder.
\* ------------------------------------------------------------------------
CurrentCoreid == Val(Val(star)._current_coreid)

\* The record that next() gave: one (position, file) pair per file with k.
AlignedRecord(record, k) ==
    /\ Len(record) = Len(FilesWith(k))
    /\ \A j \in 1..Len(record) :
          /\ record[j].file = FilesWith(k)[j]
          /\ record[j].position \in Range(CachedIndex(record[j].file)[k])

\* The rows that iterating the record gave.
AlignedRows(rows, k) ==
    /\ Len(rows) = Len(FilesWith(k))
    /\ \A j \in 1..Len(rows) :
          /\ rows[j].kind = "ExtensionRow"
          /\ rows[j].core_id = k
          /\ rows[j].row.position \in Range(CachedIndex(FilesWith(k)[j])[k])
          /\ rows[j].row.raw_fields =
                RawFieldsAt(FilesWith(k)[j], rows[j].row.position)

IndexStable ==
    \A i \in DOMAIN files :
        files[i]._coreid_index # None
            => files'[i]._coreid_index = files[i]._coreid_index

\* The access that finds no index scans the file to its end and stores
\* what it gives.
FirstAccessBuilds ==
    (/\ result'.op = "coreid_index"
     /\ files[result'.file]._coreid_index = None
     /\ result'.status = "ok")
        => /\ files'[result'.file]._coreid_index = Some(result'.value)
           /\ files'[result'.file]._file_stream.pos = Len(disk[result'.file])

\* An access that finds the index leaves the file object as it is.
LaterAccessReadsCache ==
    (/\ result'.op = "coreid_index"
     /\ files[result'.file]._coreid_index # None)
        => /\ files' = files
           /\ result'.status = "ok"
           /\ result'.value = Val(files[result'.file]._coreid_index)

\* A lookup gives the rows at the positions stored for the key.
LookupReadsCache ==
    (result.op = "get_all_rows_by_coreid" /\ result.status = "ok") =>
        /\ files[result.file]._coreid_index # None
        /\ [j \in 1..Len(result.value) |-> result.value[j].row.position] =
              IF result.arg \in DOMAIN CachedIndex(result.file)
              THEN CachedIndex(result.file)[result.arg]
              ELSE <<>>

C16_IndexBuiltOnce ==
    /\ []LookupReadsCache
    /\ [][IndexStable /\ FirstAccessBuilds /\ LaterAccessReadsCache]_vars

\* The index of two rows of one key, given by an access made after
\* close(): the closed file was not read.
C16_Witness ==
    /\ result.op = "coreid_index"
    /\ result.closed
    /\ result.status = "ok"
    /\ IsExtension(result.file)
    /\ \E k \in DOMAIN result.value : Len(result.value[k]) = 2

\* ------------------------------------------------------------------------
\* C17. get_row_by_position(p) raises IndexError and gives no row for every
\* p >= number of physical lines - lines_to_ignore, the row count itself
\* included, whatever the state of the file.
\* ------------------------------------------------------------------------
C17_PositionBeyondEndRaises ==
    (result.op = "get_row_by_position" /\ result.arg >= RowCount(result.file))
        => (result.status = "IndexError" /\ result.value = <<>>)

\* The position equal to the row count, asked of a file with header and
\* data lines, open and closed.
C17_Witness ==
    /\ result.op = "get_row_by_position"
    /\ result.arg = RowCount(result.file)
    /\ result.arg = MaxRows
    /\ files[result.file].lines_to_ignore > 0
    /\ result.closed
    /\ result.status = "IndexError"

\* ------------------------------------------------------------------------
\* dwca/read.py: the construction and the closing of a DwCAReader
\* ------------------------------------------------------------------------
\* The directory that mkdtemp() creates, and the text of every data file
\* of the archive.
TmpDir == "/tmp/tmpdwca"
DataText == <<"1", NL>>

\* The descriptor that make_from_file gives for the data file of an
\* archive without metafile.
DescriptorFromFile ==
    [Descriptor(TRUE, 0, <<>>, 1) EXCEPT !.id_index = None, !.type = None]

\* The start of __init__: a directory is read in place; anything else is
\* extracted into a new temporary directory, which exists before the
\* archive turns out not to be a zip or tar file.
_extract(a, dirs) ==
    IF a.kind = "directory"
    THEN [status |-> "ok", tmpdirs |-> dirs, _directory_to_clean |-> None]
    ELSE IF a.kind = "zip"
    THEN [status |-> "ok", tmpdirs |-> dirs \cup {TmpDir},
          _directory_to_clean |-> Some(TmpDir)]
    ELSE [status |-> "InvalidArchive", tmpdirs |-> dirs \cup {TmpDir},
          _directory_to_clean |-> None]

\* The list comprehension that opens the extension files; present[j] says
\* whether the j-th file that the metafile names is in the archive.  The
\* files opened before a missing one stay open.
RECURSIVE open_extension_files(_, _)
open_extension_files(present, opened) ==
    IF present = <<>> THEN Ok(opened)
    ELSE IF present[1]
    THEN open_extension_files(Tail(present),
             Append(opened, CSVDataFile(DataText, Descriptor(FALSE, 0, <<>>, 0))))
    ELSE [status |-> "FileNotFoundError", value |-> opened]

\* The files of the working directory of an archive without metafile.
FilesInDirectory(a) ==
    (IF a.core THEN 1 ELSE 0) + (IF a.eml THEN 1 ELSE 0)
        + Cardinality({j \in 1..Len(a.extensions) : a.extensions[j]})

_is_valid_simple_archive(a) ==
    FilesInDirectory(a) = 1 \/ (FilesInDirectory(a) = 2 /\ a.eml)

\* DwCAReader.__init__ on archive a while the directories dirs exist; gives
\* the status, the directories that exist afterwards, the data files that
\* were opened (the core file first) and the reader, None when an
\* exception left __init__.  No exit by exception closes a file or removes
\* the directory.
DwCAReader__init__(a, dirs) ==
    LET failed(e, x, fs) ==
            [status |-> e, tmpdirs |-> x.tmpdirs, files |-> fs, r |-> None]
        built(x, fs) ==
            [status |-> "ok", tmpdirs |-> x.tmpdirs, files |-> fs,
             r |-> Some([source_metadata |-> <<>>, _corefile_pointer |-> None,
                         _directory_to_clean |-> x._directory_to_clean])]
        extensions(x, e) ==
            IF e.status # "ok" THEN failed(e.status, x, e.value)
            ELSE built(x, e.value)
        with_descriptor(x) ==
            IF ~a.core THEN failed("FileNotFoundError", x, <<>>)
            ELSE extensions(x,
                     open_extension_files(a.extensions,
                         <<CSVDataFile(DataText, Descriptor(TRUE, 0, <<>>, 0))>>))
        without_descriptor(x) ==
            IF ~_is_valid_simple_archive(a) THEN failed("InvalidSimpleArchive", x, <<>>)
            ELSE built(x, <<CSVDataFile(DataText, DescriptorFromFile)>>)
        data_files(x) ==
            IF a.metafile = "present" THEN with_descriptor(x)
            ELSE without_descriptor(x)
        _parse_metadata_file(x) ==
            IF a.metafile = "present" /\ a.metadata_attr /\ ~a.eml
            THEN failed("InvalidArchive", x, <<>>)
            ELSE data_files(x)
        descriptor(x) ==
            IF x.status # "ok" THEN failed(x.status, x, <<>>)
            ELSE IF a.metafile = "malformed" THEN failed("ParseError", x, <<>>)
            ELSE _parse_metadata_file(x)
    IN descriptor(_extract(a, dirs))

\* DwCAReader.close()
DwCAReader_close(r, fs, dirs) ==
    [files |-> [i \in DOMAIN fs |-> close(fs[i])],
     tmpdirs |-> IF r._directory_to_clean # None
                 THEN dirs \ {Val(r._directory_to_clean)}
                 ELSE dirs]

\* An archive: a directory, a zip file or a file that is neither zip nor
\* tar; with or without metafile, metadata file, core file; the metafile
\* names up to MaxFiles - 1 extension files.
InitOpen ==
    \E kind \in {"directory", "zip", "unreadable"},
       metafile \in {"present", "missing", "malformed"},
       metadata_attr \in BOOLEAN, eml \in BOOLEAN, core \in BOOLEAN,
       extensions \in SeqsUpTo(BOOLEAN, MaxFiles - 1) :
        /\ archive = [kind |-> kind, metafile |-> metafile,
                      metadata_attr |-> metadata_attr, eml |-> eml,
                      core |-> core, extensions |-> extensions]
        /\ tmpdirs = {}
        /\ disk = <<>>
        /\ files = <<>>
        /\ loop = Idle
        /\ result = NoResult
        /\ star = None
        /\ join = NoJoin
        /\ reader = NoReader

\* DwCAReader(path)
ReaderOpen ==
    /\ result.op = "none"
    /\ LET given(o) ==
               /\ tmpdirs' = o.tmpdirs
               /\ files' = o.files
               /\ disk' = [i \in DOMAIN o.files |-> DataText]
               /\ reader' = IF o.status = "ok" THEN Val(o.r) ELSE reader
               /\ result' = [op |-> "DwCAReader", file |-> 0, arg |-> <<>>,
                             closed |-> FALSE, status |-> o.status,
                             value |-> <<>>]
       IN given(DwCAReader__init__(archive, tmpdirs))
    /\ UNCHANGED <<loop, star, join, archive>>

\* reader.close(), of a reader that was constructed.
ReaderClose ==
    /\ result.op = "DwCAReader"
    /\ result.status = "ok"
    /\ LET given(o) ==
               /\ files' = o.files
               /\ tmpdirs' = o.tmpdirs
       IN given(DwCAReader_close(reader, files, tmpdirs))
    /\ result' = [op |-> "DwCAReader.close", file |-> 0, arg |-> <<>>,
                  closed |-> FALSE, status |-> "ok", value |-> <<>>]
    /\ UNCHANGED <<disk, loop, star, join, reader, archive>>

NextOpen == ReaderOpen \/ ReaderClose

SpecOpen == InitOpen /\ [][NextOpen]_vars

\* ------------------------------------------------------------------------
\* C18. File handles and the temporary directory are released on every
\* exit path: after a construction that failed, and after close() on a
\* reader that was constructed, no data file opened by the constructor is
\* open and no temporary directory exists.
\* ------------------------------------------------------------------------
C18_ResourcesReleased ==
    (\/ result.op = "DwCAReader" /\ result.status # "ok"
     \/ result.op = "DwCAReader.close")
        => /\ tmpdirs = {}
           /\ \A i \in DOMAIN files : files[i]._file_stream.closed


\* ------------------------------------------------------------------------
\* The line offsets of a data file whose bytes are not all ASCII
\* (dwca/files.py, CSVDataFile.__init__ and _get_all_line_offsets).
\* The file is a sequence of bytes; io.open(encoding=..., errors="replace")
\* decodes it to characters, the lines of characters are encoded again and
\* the byte lengths are added up.
\* ------------------------------------------------------------------------
MaxUnits == 4

BOM == <<"0xEF", "0xBB", "0xBF">>

\* The byte strings the files are made of: an ASCII letter, the line
\* terminator, the UTF-8 form of U+00E9, a byte that no UTF-8 text
\* contains, and the UTF-8 byte order mark.
ByteUnitSet == {<<"a">>, <<NL>>, <<"0xC3", "0xA9">>, <<"0xFF">>, BOM}

EncodingSet == {"ascii", "latin-1", "utf-8", "utf-8-sig"}

IsAscii(c) == c \in {"a", NL}

\* The character whose code point is the byte b (latin-1).
chr(b) ==
    IF IsAscii(b) THEN b
    ELSE CASE b = "0xC3" -> "U+00C3"
           [] b = "0xA9" -> "U+00A9"
           [] b = "0xFF" -> "U+00FF"
           [] b = "0xEF" -> "U+00EF"
           [] b = "0xBB" -> "U+00BB"
           [] b = "0xBF" -> "U+00BF"

\* bytes.decode("utf-8", errors="replace") for the byte strings made of
\* ByteUnitSet: a complete sequence gives its character, any other byte
\* that is not ASCII gives U+FFFD.
RECURSIVE utf_8_decode(_)
utf_8_decode(bytes) ==
    IF bytes = <<>> THEN <<>>
    ELSE IF IsAscii(bytes[1]) THEN <<bytes[1]>> \o utf_8_decode(Tail(bytes))
    ELSE IF Len(bytes) >= 2 /\ SubSeq(bytes, 1, 2) = <<"0xC3", "0xA9">>
         THEN <<"U+00E9">> \o utf_8_decode(SubSeq(bytes, 3, Len(bytes)))
    ELSE IF Len(bytes) >= 3 /\ SubSeq(bytes, 1, 3) = BOM
         THEN <<"U+FEFF">> \o utf_8_decode(SubSeq(bytes, 4, Len(bytes)))
    ELSE <<"U+FFFD">> \o utf_8_decode(Tail(bytes))

\* The text the stream opened by io.open(..., encoding=encoding,
\* errors="replace") gives.  utf-8-sig drops a byte order mark at the
\* start of the file.
decode(bytes, encoding) ==
    CASE encoding = "latin-1" -> [i \in 1..Len(bytes) |-> chr(bytes[i])]
      [] encoding = "ascii" ->
            [i \in 1..Len(bytes) |->
                IF IsAscii(bytes[i]) THEN bytes[i] ELSE "U+FFFD"]
      [] encoding = "utf-8" -> utf_8_decode(bytes)
      [] encoding = "utf-8-sig" ->
            IF Len(bytes) >= 3 /\ SubSeq(bytes, 1, 3) = BOM
            THEN utf_8_decode(SubSeq(bytes, 4, Len(bytes)))
            ELSE utf_8_decode(bytes)

\* The number of bytes of one character in UTF-8.
utf_8_len(c) ==
    IF IsAscii(c) THEN 1
    ELSE IF c \in {"U+FFFD", "U+FEFF"} THEN 3
    ELSE 2

RECURSIVE utf_8_encoded_len(_)
utf_8_encoded_len(line) ==
    IF line = <<>> THEN 0
    ELSE utf_8_len(line[1]) + utf_8_encoded_len(Tail(line))

\* len(line.encode(encoding)).  The encoders are strict: a character the
\* encoding does not have raises UnicodeEncodeError.  utf-8-sig writes a
\* byte order mark at the start of every string it encodes.
encoded_len(line, encoding) ==
    CASE encoding = "latin-1" ->
            IF \E i \in DOMAIN line : line[i] \in {"U+FFFD", "U+FEFF"}
            THEN Raise("UnicodeEncodeError") ELSE Ok(Len(line))
      [] encoding = "ascii" ->
            IF \E i \in DOMAIN line : ~IsAscii(line[i])
            THEN Raise("UnicodeEncodeError") ELSE Ok(Len(line))
      [] encoding = "utf-8" -> Ok(utf_8_encoded_len(line))
      [] encoding = "utf-8-sig" -> Ok(Len(BOM) + utf_8_encoded_len(line))

\* The loop of _get_all_line_offsets over the lines of the stream: text is
\* the decoded text, p the place of the stream in it, offset the sum of
\* the encoded lengths so far.
RECURSIVE encoded_offsets_from(_, _, _, _, _)
encoded_offsets_from(text, p, offset, encoding, line_offsets) ==
    IF p >= Len(text) THEN Ok(line_offsets)
    ELSE LET step(n) ==
                 IF n.status # "ok" THEN n
                 ELSE encoded_offsets_from(text, LineEnd(text, p),
                                           offset + n.value, encoding,
                                           Append(line_offsets, offset))
         IN step(encoded_len(readline(text, p), encoding))

_get_all_line_offsets_of(bytes, encoding) ==
    encoded_offsets_from(decode(bytes, encoding), 0, 0, encoding, <<>>)

\* CSVDataFile.__init__ on a file of bytes: the exception of the offset
\* index leaves the constructor.
CSVDataFile_of(bytes, file_descriptor, encoding) ==
    LET built(offsets) ==
            IF offsets.status # "ok" THEN offsets
            ELSE Ok([file_descriptor |-> file_descriptor,
                     _file_stream |-> [pos |-> 0, closed |-> FALSE],
                     _line_offsets |-> offsets.value,
                     lines_to_ignore |-> file_descriptor.lines_to_ignore,
                     _coreid_index |-> None])
    IN built(_get_all_line_offsets_of(bytes, encoding))

\* A data file of up to MaxUnits byte strings, its declared encoding and
\* its number of header lines.
InitOffsets ==
    \E us \in SeqsUpTo(ByteUnitSet, MaxUnits), encoding \in EncodingSet,
       h \in 0..MaxHeader :
        /\ disk = <<Flatten(us)>>
        /\ archive = [file_encoding |-> encoding, lines_to_ignore |-> h]
        /\ files = <<>>
        /\ loop = Idle
        /\ result = NoResult
        /\ star = None
        /\ join = NoJoin
        /\ reader = NoReader
        /\ tmpdirs = {}

OpenDataFile ==
    /\ result.op = "none"
    /\ LET opened(out) ==
               /\ files' = IF out.status = "ok" THEN <<out.value>> ELSE files
               /\ result' = [op |-> "CSVDataFile", file |-> 1,
                             arg |-> archive.file_encoding, closed |-> FALSE,
                             status |-> out.status,
                             value |-> IF out.status = "ok"
                                       THEN out.value._line_offsets
                                       ELSE <<>>]
       IN opened(CSVDataFile_of(disk[1],
                                Descriptor(TRUE, 0, <<>>,
                                           archive.lines_to_ignore),
                                archive.file_encoding))
    /\ UNCHANGED <<disk, loop, star, join, reader, archive, tmpdirs>>

NextOffsets == OpenDataFile

SpecOffsets == InitOffsets /\ [][NextOffsets]_vars

\* The byte offsets at which the lines of a file begin: offset 0 of a file
\* that is not empty, and every offset that follows a line terminator and
\* is not the end of the file.
RECURSIVE PhysicalLineStarts(_, _)
PhysicalLineStarts(bytes, p) ==
    IF p >= Len(bytes) THEN <<>>
    ELSE IF p = 0 \/ bytes[p] = NL
         THEN <<p>> \o PhysicalLineStarts(bytes, p + 1)
         ELSE PhysicalLineStarts(bytes, p + 1)

\* C19: after the construction of a CSVDataFile, _line_offsets has one
\* entry per physical line of the file and entry i is the byte offset at
\* which line i begins, for every declared encoding and every content of
\* the file, bytes that the encoding cannot decode included.
C19_OffsetsArePhysicalLineStarts ==
    result.op = "CSVDataFile"
        => /\ result.status = "ok"
           /\ result.value = PhysicalLineStarts(disk[1], 0)


\* ------------------------------------------------------------------------
\* csv_line_to_fields on lines with enclosed fields (dwca/rows.py).
\* ------------------------------------------------------------------------
MaxFields == 3

\* The enclosure character (fieldsEnclosedBy='"').
Q == "\""

\* What a field of a written line holds: content is its value, enclosed
\* tells whether it was written between two enclosure characters.  The
\* values of enclosed fields include the field terminator and values that
\* begin or end with the enclosure character; a field that is not
\* enclosed does not begin with it and holds no terminator.
WrittenFieldSet ==
    [enclosed : {TRUE},
     content : {<<>>, <<"a">>, <<"a", TAB, "a">>, <<Q, "a">>, <<"a", Q>>}]
    \cup [enclosed : {FALSE},
          content : {<<"a">>, <<"a", Q>>, <<"a", Q, "a">>}]

\* The text of a field in the file.
WrittenField(w) == IF w.enclosed THEN <<Q>> \o w.content \o <<Q>> ELSE w.content

\* The line of the file: the fields, separated by the field terminator, and
\* the line terminator.
RECURSIVE WrittenLine(_, _)
WrittenLine(ws, field_ending) ==
    IF Len(ws) = 1 THEN WrittenField(ws[1]) \o <<NL>>
    ELSE WrittenField(ws[1]) \o <<field_ending>>
             \o WrittenLine(Tail(ws), field_ending)

\* A line of one to MaxFields fields of a data file whose descriptor gives
\* an enclosure character.
InitFields ==
    \E n \in 1..MaxFields : \E ws \in [1..n -> WrittenFieldSet] :
        /\ disk = <<WrittenLine(ws, TAB)>>
        /\ archive = [written |-> ws, fields_enclosed_by |-> <<Q>>]
        /\ files = <<>>
        /\ loop = Idle
        /\ result = NoResult
        /\ star = None
        /\ join = NoJoin
        /\ reader = NoReader
        /\ tmpdirs = {}

SplitLine ==
    /\ result.op = "none"
    /\ result' = [op |-> "csv_line_to_fields", file |-> 1,
                  arg |-> archive.fields_enclosed_by, closed |-> FALSE,
                  status |-> "ok",
                  value |-> csv_line_to_fields(disk[1], <<NL>>, TAB,
                                               archive.fields_enclosed_by)]
    /\ UNCHANGED <<disk, files, loop, star, join, reader, archive, tmpdirs>>

NextFields == SplitLine

SpecFields == InitFields /\ [][NextFields]_vars

\* C20: with an enclosure character, csv_line_to_fields gives one field per
\* written field (a terminator inside an enclosed field does not split),
\* an enclosed field without its one leading and its one trailing
\* enclosure character (an enclosure character at the start or the end of
\* the value is kept), and a field that is not enclosed as it was written.
C20_EnclosedFields ==
    result.op = "csv_line_to_fields"
        => result.value = [i \in DOMAIN archive.written |->
                              archive.written[i].content]


\* ------------------------------------------------------------------------
\* C29. get_row_by_position(p) with a negative p raises IndexError for
\* every file: no row is built from a header line or from a line counted
\* from the end of the file.
\* ------------------------------------------------------------------------
C29_NegativePositionRaises ==
    (result.op = "get_row_by_position" /\ result.arg < 0)
        => result.status = "IndexError"


\* ------------------------------------------------------------------------
\* C28. Within one key the star records come in a fixed order: the files
\* of a record are in the order given at construction, and the records of
\* the key follow each other in the lexicographic order of their position
\* tuples, positions ascending, the position in the last file varying
\* fastest.  The records of one key are given consecutively.
\* ------------------------------------------------------------------------
\* The position tuple of record a comes before that of record b.
RECURSIVE PositionsBefore(_, _)
PositionsBefore(a, b) ==
    /\ a # <<>>
    /\ b # <<>>
    /\ \/ a[1].position < b[1].position
       \/ /\ a[1].position = b[1].position
          /\ PositionsBefore(Tail(a), Tail(b))

FilesInOrder(record, k) ==
    [j \in 1..Len(record) |-> record[j].file] = FilesWith(k)

KeyIsConsecutive ==
    \A i, l \in 1..Len(join.records) :
        (i < l /\ join.records[i].coreid = join.records[l].coreid)
            => \A j \in i..l : join.records[j].coreid = join.records[i].coreid

C28_OrderWithinKey ==
    star # None =>
        /\ \A j \in 1..Len(join.records) :
              FilesInOrder(join.records[j].record, join.records[j].coreid)
        /\ \A j \in 1..Len(join.records) - 1 :
              join.records[j].coreid = join.records[j + 1].coreid
                  => PositionsBefore(join.records[j].record,
                                     join.records[j + 1].record)
        /\ KeyIsConsecutive

\* A full outer pass over three files that gave the four records of a key
\* held twice by each of the first two files, and a record of another key.
C28_Witness ==
    /\ star # None
    /\ join.state = "done"
    /\ Len(files) = 3
    /\ \E k \in Val(star).common_core :
          /\ FilesWith(k) = <<1, 2>>
          /\ Cardinality(RecordsOf(k)) = 4
          /\ \E j \in 1..Len(join.records) : join.records[j].coreid # k


\* ------------------------------------------------------------------------
\* The descriptor of a section of the metafile (dwca/descriptors.py,
\* make_from_metafile_section and _decode_xml_attribute).  An attribute of
\* the section is None when the section does not have it, Some(text)
\* otherwise; a text is a sequence of characters.
\* ------------------------------------------------------------------------
BACKSLASH == "\\"

\* bytes(...).decode("unicode-escape") on the texts of the model: \t and \n
\* give the tabulation and the line feed, a backslash that ends the text
\* cannot be decoded.
RECURSIVE unicode_escape(_)
unicode_escape(s) ==
    IF s = <<>> THEN Ok(<<>>)
    ELSE IF s[1] # BACKSLASH
    THEN LET rest(r) == IF r.status # "ok" THEN r ELSE Ok(<<s[1]>> \o r.value)
         IN rest(unicode_escape(Tail(s)))
    ELSE IF Len(s) = 1 THEN Raise("UnicodeDecodeError")
    ELSE LET c == CASE s[2] = "t" -> TAB
                    [] s[2] = "n" -> NL
                    [] OTHER -> s[2]
             rest(r) == IF r.status # "ok" THEN r ELSE Ok(<<c>> \o r.value)
         IN rest(unicode_escape(SubSeq(s, 3, Len(s))))

\* _decode_xml_attribute: an attribute that is absent or empty gives the
\* default value; bytes(raw_attribute, encoding) raises TypeError when the
\* section has no encoding attribute.
_decode_xml_attribute(raw_attribute, default_value, encoding) ==
    IF raw_attribute # None /\ Val(raw_attribute) # <<>>
    THEN IF encoding = None THEN Raise("TypeError")
         ELSE unicode_escape(Val(raw_attribute))
    ELSE Ok(default_value)

\* make_from_metafile_section.  The three separators of the descriptor are
\* texts here.
make_from_metafile_section(section_tag) ==
    LET made(l, t, e) ==
            IF l.status # "ok" THEN l
            ELSE IF t.status # "ok" THEN t
            ELSE IF e.status # "ok" THEN e
            ELSE Ok([represents_corefile |-> section_tag.tag = "core",
                     type |-> section_tag.rowType,
                     id_index |-> IF section_tag.tag = "core"
                                  THEN Some(section_tag.index) ELSE None,
                     coreid_index |-> IF section_tag.tag = "core"
                                      THEN None ELSE Some(section_tag.index),
                     fields |-> <<>>,
                     lines_to_ignore |->
                         IF section_tag.ignoreHeaderLines = None THEN 0
                         ELSE Val(section_tag.ignoreHeaderLines),
                     lines_terminated_by |-> l.value,
                     fields_terminated_by |-> t.value,
                     fields_enclosed_by |-> e.value])
    IN made(_decode_xml_attribute(section_tag.linesTerminatedBy, <<NL>>,
                                  section_tag.encoding),
            _decode_xml_attribute(section_tag.fieldsTerminatedBy, <<TAB>>,
                                  section_tag.encoding),
            _decode_xml_attribute(section_tag.fieldsEnclosedBy, <<>>,
                                  section_tag.encoding))

\* The sections: with and without each attribute.
SectionSet ==
    [tag : {"core", "extension"},
     rowType : {"Taxon"},
     index : {0},
     encoding : {None, Some("utf-8")},
     ignoreHeaderLines : {None, Some(1)},
     linesTerminatedBy : {None, Some(<<>>), Some(<<BACKSLASH, "n">>)},
     fieldsTerminatedBy : {None, Some(<<BACKSLASH, "t">>), Some(<<",">>)},
     fieldsEnclosedBy : {None, Some(<<>>), Some(<<Q>>), Some(<<"'">>),
                         Some(<<BACKSLASH>>)}]

InitMeta ==
    \E section_tag \in SectionSet :
        /\ archive = [section_tag |-> section_tag]
        /\ disk = <<>>
        /\ files = <<>>
        /\ loop = Idle
        /\ result = NoResult
        /\ star = None
        /\ join = NoJoin
        /\ reader = NoReader
        /\ tmpdirs = {}

MakeFromMetafileSection ==
    /\ result.op = "none"
    /\ LET made(d) ==
               result' = [op |-> "make_from_metafile_section", file |-> 0,
                          arg |-> archive.section_tag.fieldsEnclosedBy,
                          closed |-> FALSE, status |-> d.status,
                          value |-> d.value]
       IN made(make_from_metafile_section(archive.section_tag))
    /\ UNCHANGED <<disk, files, loop, star, join, reader, archive, tmpdirs>>

NextMeta == MakeFromMetafileSection

SpecMeta == InitMeta /\ [][NextMeta]_vars

\* C26: in the descriptor built from a section, a fieldsEnclosedBy
\* attribute that is present and empty gives the empty text as
\* fields_enclosed_by, and a section without the attribute gives the double
\* quote.
C26_EmptyAndAbsentEnclosure ==
    (result.op = "make_from_metafile_section" /\ result.status = "ok")
        => /\ result.arg = Some(<<>>)
                => result.value.fields_enclosed_by = <<>>
           /\ result.arg = None
                => result.value.fields_enclosed_by = <<Q>>

\* ------------------------------------------------------------------------
\* The calls on a DwCAReader over a core file and its extension files
\* (dwca/read.py), and the extensions and the comparison of rows
\* (dwca/rows.py).  fs[1] is the core file, fs[2..] are the extension
\* files in the order of the metafile.  A call gives [r |-> the reader
\* after the call, fs |-> the files after the call, status, value].
\* ------------------------------------------------------------------------
ReaderDone(r, fs, out) ==
    [r |-> r, fs |-> fs, status |-> out.status, value |-> out.value]

\* for (i, row) in enumerate(self): ... of get_corerow_by_position, after
\* __iter__: the StopIteration of next() ends the loop, any other
\* exception leaves the method.
RECURSIVE position_loop(_, _, _, _, _)
position_loop(r, fs, texts, i, position) ==
    LET turn(n) ==
            IF n.status = "StopIteration"
            THEN ReaderDone(n.r, [fs EXCEPT ![1] = n.f], Raise("RowNotFound"))
            ELSE IF n.status # "ok"
            THEN ReaderDone(n.r, [fs EXCEPT ![1] = n.f], Raise(n.status))
            ELSE IF i = position
            THEN ReaderDone(n.r, [fs EXCEPT ![1] = n.f], Ok(n.value))
            ELSE position_loop(n.r, [fs EXCEPT ![1] = n.f], texts, i + 1,
                               position)
    IN turn(DwCAReader_next(r, fs, texts))

get_corerow_by_position(r, fs, texts, position) ==
    position_loop([r EXCEPT !._corefile_pointer = Some(0)], fs, texts, 0,
                  position)

\* for row in self: if row.id == str(row_id): return row
RECURSIVE id_loop(_, _, _, _)
id_loop(r, fs, texts, row_id) ==
    LET turn(n) ==
            IF n.status = "StopIteration"
            THEN ReaderDone(n.r, [fs EXCEPT ![1] = n.f], Raise("RowNotFound"))
            ELSE IF n.status # "ok"
            THEN ReaderDone(n.r, [fs EXCEPT ![1] = n.f], Raise(n.status))
            ELSE IF n.value.id = Some(row_id)
            THEN ReaderDone(n.r, [fs EXCEPT ![1] = n.f], Ok(n.value))
            ELSE id_loop(n.r, [fs EXCEPT ![1] = n.f], texts, row_id)
    IN turn(DwCAReader_next(r, fs, texts))

get_corerow_by_id(r, fs, texts, row_id) ==
    id_loop([r EXCEPT !._corefile_pointer = Some(0)], fs, texts, row_id)

\* list(self)
RECURSIVE list_loop(_, _, _, _)
list_loop(r, fs, texts, acc) ==
    LET turn(n) ==
            IF n.status = "StopIteration"
            THEN ReaderDone(n.r, [fs EXCEPT ![1] = n.f], Ok(acc))
            ELSE IF n.status # "ok"
            THEN ReaderDone(n.r, [fs EXCEPT ![1] = n.f], Raise(n.status))
            ELSE list_loop(n.r, [fs EXCEPT ![1] = n.f], texts,
                           Append(acc, n.value))
    IN turn(DwCAReader_next(r, fs, texts))

rows(r, fs, texts) ==
    list_loop([r EXCEPT !._corefile_pointer = Some(0)], fs, texts, <<>>)

\* coreid_index.copy() without the keys that are ids of core rows.
pop_ids(coreid_index_copy, ids) ==
    [k \in {c \in DOMAIN coreid_index_copy : Some(c) \notin ids}
        |-> coreid_index_copy[k]]

\* An orphaned_extension_rows that removes the ids from the index of the
\* file itself, not from a copy of it.
RECURSIVE orphans_in_place_loop(_, _, _, _, _, _)
orphans_in_place_loop(r, fs, texts, e, ids, indexes) ==
    IF e > Len(fs) THEN ReaderDone(r, fs, Ok(indexes))
    ELSE LET popped(i) ==
                 IF i.status # "ok"
                 THEN ReaderDone(r, [fs EXCEPT ![e] = i.f], Raise(i.status))
                 ELSE orphans_in_place_loop(
                          r,
                          [fs EXCEPT ![e] =
                              [i.f EXCEPT !._coreid_index =
                                  Some(pop_ids(i.value, ids))]],
                          texts, e + 1, ids,
                          [k \in DOMAIN indexes \cup {e} |->
                              IF k = e THEN pop_ids(i.value, ids)
                              ELSE indexes[k]])
         IN popped(coreid_index(fs[e], texts[e]))

orphaned_extension_rows_in_place(r, fs, texts) ==
    IF Len(fs) - 1 > 0
    THEN LET ids(l) ==
                 IF l.status # "ok" THEN l
                 ELSE orphans_in_place_loop(
                          l.r, l.fs, texts, 2,
                          {l.value[j].id : j \in 1..Len(l.value)}, <<>>)
         IN ids(rows(r, fs, texts))
    ELSE ReaderDone(r, fs, Ok(<<>>))

\* The loop of orphaned_extension_rows over the extension files; indexes
\* is keyed by the file (its location).
RECURSIVE orphans_loop(_, _, _, _, _, _)
orphans_loop(r, fs, texts, e, ids, indexes) ==
    IF e > Len(fs) THEN ReaderDone(r, fs, Ok(indexes))
    ELSE LET popped(i) ==
                 IF i.status # "ok"
                 THEN ReaderDone(r, [fs EXCEPT ![e] = i.f], Raise(i.status))
                 ELSE orphans_loop(r, [fs EXCEPT ![e] = i.f], texts, e + 1,
                                   ids,
                                   [k \in DOMAIN indexes \cup {e} |->
                                       IF k = e THEN pop_ids(i.value, ids)
                                       ELSE indexes[k]])
         IN popped(coreid_index(fs[e], texts[e]))

\* orphaned_extension_rows: the ids are gathered by a loop over the reader
\* itself.
orphaned_extension_rows(r, fs, texts) ==
    IF Len(fs) - 1 > 0
    THEN LET ids(l) ==
                 IF l.status # "ok" THEN l
                 ELSE orphans_loop(l.r, l.fs, texts, 2,
                                   {l.value[j].id : j \in 1..Len(l.value)},
                                   <<>>)
         IN ids(rows(r, fs, texts))
    ELSE ReaderDone(r, fs, Ok(<<>>))

\* CoreRow.extensions at its first access: the rows that each extension
\* file gives for the id of the row, file after file.  A row that was not
\* linked to the extension files has no extension_data_files attribute.
RECURSIVE extensions_loop(_, _, _, _, _)
extensions_loop(id, es, fs, texts, _extensions) ==
    IF es = <<>> THEN [fs |-> fs, status |-> "ok", value |-> _extensions]
    ELSE LET found(g) ==
                 IF g.status # "ok"
                 THEN [fs |-> [fs EXCEPT ![es[1]] = g.f], status |-> g.status,
                       value |-> <<>>]
                 ELSE extensions_loop(id, Tail(es),
                                      [fs EXCEPT ![es[1]] = g.f], texts,
                                      _extensions \o g.value)
         IN found(get_all_rows_by_coreid(fs[es[1]], texts[es[1]], id))

extensions(row, fs, texts) ==
    IF "extension_data_files" \notin DOMAIN row
    THEN [fs |-> fs, status |-> "AttributeError", value |-> <<>>]
    ELSE extensions_loop(Val(row.id), row.extension_data_files, fs, texts,
                         <<>>)

\* ExtensionRow.__key and CoreRow.__key: the tuple that __eq__ compares.
\* The key of a core row reads its extensions and its source_metadata.
Row__key(row, fs, texts) ==
    IF row.kind = "ExtensionRow"
    THEN [fs |-> fs, status |-> "ok",
          value |-> <<row.row.descriptor, row.core_id, row.row.data,
                      row.row.rowtype, row.row.raw_fields, row.row.position>>]
    ELSE LET key(x) ==
                 IF x.status # "ok" THEN x
                 ELSE IF "source_metadata" \notin DOMAIN row
                 THEN [fs |-> x.fs, status |-> "AttributeError",
                       value |-> <<>>]
                 ELSE [fs |-> x.fs, status |-> "ok",
                       value |-> <<row.row.descriptor, row.id, row.row.data,
                                   x.value, row.source_metadata,
                                   row.row.rowtype, row.row.raw_fields,
                                   row.row.position>>]
         IN key(extensions(row, fs, texts))

\* a == b: self.__key() == other.__key()
Row__eq__(a, b, fs, texts) ==
    LET other(ka, kb) ==
            IF kb.status # "ok" THEN kb
            ELSE [fs |-> kb.fs, status |-> "ok", value |-> ka.value = kb.value]
        self(ka) ==
            IF ka.status # "ok" THEN ka
            ELSE other(ka, Row__key(b, ka.fs, texts))
    IN self(Row__key(a, fs, texts))


\* ------------------------------------------------------------------------
\* A reader over a core file and up to MaxFiles - 1 extension files, the
\* loop of its caller and the calls made on it meanwhile.
\* ------------------------------------------------------------------------
\* The core lines: a line without any column has no id.
ArchiveCoreLineSet == {<<NL>>, <<"1", NL>>, <<"2", NL>>}

\* The texts of a data file: at most one header line, empty, and up to
\* MaxRows lines.
ArchiveTexts(lines) ==
    {[h |-> h, text |-> Flatten([j \in 1..h |-> <<NL>>] \o ds)] :
        h \in 0..1, ds \in SeqsUpTo(lines, MaxRows)}

\* The reader of an archive of a core file and n extension files, n in ns.
ArchiveOf(ns, cores) ==
    \E n \in ns :
    \E core \in cores, exts \in [1..n -> ArchiveTexts(DataLineSet)] :
        /\ disk = <<core.text>> \o [e \in 1..n |-> exts[e].text]
        /\ files = <<CSVDataFile(core.text, Descriptor(TRUE, 0, <<>>, core.h))>>
                   \o [e \in 1..n |->
                          CSVDataFile(exts[e].text,
                                      Descriptor(FALSE, 0, <<>>, exts[e].h))]
        /\ loop = Idle
        /\ result = NoResult
        /\ star = None
        /\ join = NoJoin
        /\ reader = NoReader
        /\ archive = NoArchive
        /\ tmpdirs = {}

\* An archive without or with one extension file.
InitArchive == ArchiveOf(0..1, ArchiveTexts(ArchiveCoreLineSet))

\* A call on the reader: its outcome, and the mark on the running loop.
\* A call made while the loop runs is made in the body of the loop, which
\* is entered once the loop has been given a row.
ReaderCall(op, arg, out) ==
    /\ loop.state = "active" => loop.yielded # <<>>
    /\ reader' = out.r
    /\ files' = out.fs
    /\ result' = [op |-> op, file |-> 0, arg |-> arg, closed |-> FALSE,
                  status |-> out.status, value |-> out.value]
    /\ loop' = IF loop.state = "active"
               THEN [loop EXCEPT !.interleaved = TRUE] ELSE loop
    /\ UNCHANGED <<disk, star, join, archive, tmpdirs>>

\* for row in reader: of the caller, once.
LoopStart ==
    /\ loop.state = "idle"
    /\ ReaderIter

\* The next turn of the caller's loop; a loop that has been given more
\* rows than the core file can hold is not followed further.
LoopNext ==
    /\ Len(loop.yielded) <= MaxRows
    /\ ReaderNext

GetCorerowByPosition ==
    \E position \in 0..MaxRows :
        ReaderCall("get_corerow_by_position", position,
                   get_corerow_by_position(reader, files, disk, position))

GetCorerowById ==
    \E row_id \in Keys :
        ReaderCall("get_corerow_by_id", row_id,
                   get_corerow_by_id(reader, files, disk, row_id))

Rows == ReaderCall("rows", <<>>, rows(reader, files, disk))

OrphanedExtensionRows ==
    ReaderCall("orphaned_extension_rows", <<>>,
               orphaned_extension_rows(reader, files, disk))

\* row.extensions of the core row that the reader gave last.
Extensions ==
    /\ result.op \in {"get_corerow_by_position", "get_corerow_by_id",
                      "DwCAReader.next"}
    /\ result.status = "ok"
    /\ LET given(x) ==
               /\ files' = x.fs
               /\ result' = [op |-> "extensions", file |-> 0,
                             arg |-> result.value, closed |-> FALSE,
                             status |-> x.status, value |-> x.value]
       IN given(extensions(result.value, files, disk))
    /\ UNCHANGED <<disk, loop, star, join, reader, archive, tmpdirs>>

\* The row at position p of file i, obtained from the file or (a core row)
\* from the reader.
Materialize(via, i, p, r, fs, texts) ==
    IF via = "reader" THEN get_corerow_by_position(r, fs, texts, p)
    ELSE LET got(g) == ReaderDone(r, [fs EXCEPT ![i] = g.f], g)
         IN got(get_row_by_position(fs[i], texts[i], p))

\* a == b for two rows of one file that the caller obtains one after the
\* other from the reader it has just opened.
RowEq ==
    \E i \in DOMAIN files, p, q \in 0..MaxRows - 1,
       via_a, via_b \in {"file", "reader"} :
        /\ result.op = "none"
        /\ (via_a = "reader" \/ via_b = "reader") => i = 1
        /\ LET compared(a, b, eq) ==
                   /\ reader' = b.r
                   /\ files' = eq.fs
                   /\ result' = [op |-> "Row.__eq__", file |-> i,
                                 arg |-> [a |-> [via |-> via_a, position |-> p],
                                          b |-> [via |-> via_b, position |-> q]],
                                 closed |-> FALSE, status |-> eq.status,
                                 value |-> eq.value]
               second(a, b) ==
                   /\ b.status = "ok"
                   /\ compared(a, b, Row__eq__(a.value, b.value, b.fs, disk))
               first(a) ==
                   /\ a.status = "ok"
                   /\ second(a, Materialize(via_b, i, q, a.r, a.fs, disk))
           IN first(Materialize(via_a, i, p, reader, files, disk))
        /\ loop' = IF loop.state = "active"
                   THEN [loop EXCEPT !.interleaved = TRUE] ELSE loop
        /\ UNCHANGED <<disk, star, join, archive, tmpdirs>>

NextArchive ==
    \/ LoopStart
    \/ LoopNext
    \/ GetCorerowByPosition
    \/ GetCorerowById
    \/ Rows
    \/ OrphanedExtensionRows

SpecArchive == InitArchive /\ [][NextArchive]_vars

\* An archive with one extension file or more, whose core file has no
\* header line: the rows that the caller obtains, their extensions and
\* their comparison.
InitLinked ==
    ArchiveOf(1..MaxFiles - 1,
              {t \in ArchiveTexts(ArchiveCoreLineSet) : t.h = 0})

NextLinked ==
    \/ GetCorerowByPosition
    \/ Extensions
    \/ RowEq

SpecLinked == InitLinked /\ [][NextLinked]_vars

\* ------------------------------------------------------------------------
\* C21. Two materializations of one line of a file, at the same position,
\* compare equal and the comparison does not raise, for extension rows and
\* for core rows, whether the rows come from the file or from the reader;
\* rows of different positions compare unequal.
\* ------------------------------------------------------------------------
C21_RowsCompareEqual ==
    result.op = "Row.__eq__"
        => /\ result.status = "ok"
           /\ result.value = (result.arg.a.position = result.arg.b.position)


\* ------------------------------------------------------------------------
\* C24. row.extensions of a core row of the reader holds the extension
\* rows whose core_id is the id of the row, and only those: the rows of the
\* first extension file first, then those of the next file, within a file
\* in ascending position, each with its 0-based data line index as
\* position; it is empty when no extension row names the row.
\* ------------------------------------------------------------------------
\* The rows of the extension files e, e + 1, ... that name the id: their
\* file, position and fields.
RECURSIVE ExtensionLinesOf(_, _)
ExtensionLinesOf(id, e) ==
    IF e > Len(files) THEN <<>>
    ELSE [j \in 1..Len(PositionsOf(e, id)) |->
             [file |-> e, position |-> PositionsOf(e, id)[j],
              raw_fields |-> RawFieldsAt(e, PositionsOf(e, id)[j])]]
         \o ExtensionLinesOf(id, e + 1)

\* The position and the fields of the rows given.
ExtensionsGiven(rs) ==
    [j \in 1..Len(rs) |->
        [position |-> rs[j].row.position, raw_fields |-> rs[j].row.raw_fields]]

C24_ExtensionsOfCoreRow ==
    result.op = "extensions"
        => /\ result.status = "ok"
           /\ \A j \in 1..Len(result.value) :
                 result.value[j].core_id = Val(result.arg.id)
           /\ ExtensionsGiven(result.value)
                 = [j \in 1..Len(ExtensionLinesOf(Val(result.arg.id), 2)) |->
                       [position |->
                            ExtensionLinesOf(Val(result.arg.id), 2)[j].position,
                        raw_fields |->
                            ExtensionLinesOf(Val(result.arg.id), 2)[j].raw_fields]]


\* ------------------------------------------------------------------------
\* What the core file holds
\* ------------------------------------------------------------------------
\* The id of the core line at position p (the first column), None for a
\* line without any column.
CoreIdAt(p) ==
    IF RawFieldsAt(1, p) = <<>> THEN None ELSE Some(RawFieldsAt(1, p)[1])

\* Some core line has the id k.
CoreHasId(k) == \E p \in 0..RowCount(1) - 1 : CoreIdAt(p) = Some(k)

\* ------------------------------------------------------------------------
\* C22. get_corerow_by_position(p) returns the core row at position p for
\* every 0 <= p < number of core rows: its position is p and it holds the
\* fields of the p-th data line, with or without header line; it raises
\* RowNotFound for every p >= number of core rows.
\* ------------------------------------------------------------------------
C22_CorerowByPosition ==
    result.op = "get_corerow_by_position"
        => /\ (result.arg < RowCount(1) /\ CoreIdAt(result.arg) # None)
                => /\ result.status = "ok"
                   /\ result.value.row.position = result.arg
                   /\ result.value.row.raw_fields = RawFieldsAt(1, result.arg)
           /\ result.arg >= RowCount(1) => result.status = "RowNotFound"

\* ------------------------------------------------------------------------
\* C23. get_corerow_by_id(row_id) returns a core row whose id is row_id
\* when the core file has such a row and raises RowNotFound otherwise,
\* whatever calls and whatever iteration of the reader came before.
\* ------------------------------------------------------------------------
C23_CorerowById ==
    result.op = "get_corerow_by_id"
        => IF CoreHasId(result.arg)
           THEN /\ result.status = "ok"
                /\ result.value.id = Some(result.arg)
           ELSE result.status = "RowNotFound"

\* ------------------------------------------------------------------------
\* C25. orphaned_extension_rows() gives, for each extension file, the
\* entries of the coreid index of the file whose key is not the id of any
\* core row (no entry at all for a file without orphans), and {} for an
\* archive without extension file.
\* ------------------------------------------------------------------------
OrphansOf(e) ==
    [k \in {c \in DOMAIN Val(files[e]._coreid_index) : ~CoreHasId(c)}
        |-> Val(files[e]._coreid_index)[k]]

C25_OrphanedExtensionRows ==
    result.op = "orphaned_extension_rows"
        => /\ result.status = "ok"
           /\ DOMAIN result.value = 2..Len(files)
           /\ \A e \in 2..Len(files) : result.value[e] = OrphansOf(e)

\* ------------------------------------------------------------------------
\* C27. The calls made on the reader while a loop over it is running do
\* not change what the loop is given: at every moment the loop has been
\* given the first rows of the undisturbed pass, each once and in file
\* order, and when it ends it has been given all of them.
\* ------------------------------------------------------------------------
IsPrefix(s, t) == Len(s) <= Len(t) /\ s = SubSeq(t, 1, Len(s))

C27_LoopUndisturbedByCalls ==
    loop.state \in {"active", "done"}
        => LET pass(all) ==
                   all.status = "ok"
                       => /\ IsPrefix(loop.yielded, all.value)
                          /\ loop.state = "done" => loop.yielded = all.value
           IN pass(rows(reader, files, disk))

\* ------------------------------------------------------------------------
\* C30. orphaned_extension_rows() leaves the cached coreid index of every
\* extension file as it was, and get_all_rows_by_coreid gives for every
\* key what it gave before the call.
\* ------------------------------------------------------------------------
\* What get_all_rows_by_coreid gives on the file object f of file e.
Lookup(f, e, k) ==
    LET given(g) == [status |-> g.status, value |-> g.value]
    IN given(get_all_rows_by_coreid(f, disk[e], k))

OrphansKeepIndex ==
    result'.op = "orphaned_extension_rows"
        => \A e \in 2..Len(files) :
              /\ files[e]._coreid_index # None
                    => files'[e]._coreid_index = files[e]._coreid_index
              /\ \A k \in Keys : Lookup(files'[e], e, k) = Lookup(files[e], e, k)

C30_OrphansKeepIndex == [][OrphansKeepIndex]_vars

\* A call that reported the orphans of an extension file which also holds
\* rows of a core row.
C30_Witness ==
    /\ result.op = "orphaned_extension_rows"
    /\ result.status = "ok"
    /\ \E e \in 2..Len(files) :
          /\ DOMAIN result.value[e] # {}
          /\ DOMAIN result.value[e] # DOMAIN Val(files[e]._coreid_index)

====
